---- MODULE Spec2Model ----
(***************************************************************************)
(* tgimg-core: the ThumbHash encoder (cli/internal/thumbhash/thumbhash.go) *)
(* with its sync.Pool of work buffers, and the header / AC-nibble parser   *)
(* of the TypeScript decoder (thumbHashToRGBA).                            *)
(*                                                                         *)
(* Numbers.  The encoder computes in IEEE-754 binary32.  A float32 is the  *)
(* record [m, e] standing for m * 2^e with m = 0 or 2^23 <= m < 2^24;      *)
(* every operation below rounds to nearest, ties to even, as the hardware  *)
(* does.  Only non-negative values occur in the parts modelled (alpha and  *)
(* colour bytes); NaN is the record with m = -1 (0/0).                     *)
(***************************************************************************)
EXTENDS Integers, Sequences, FiniteSets, TLC

\* ------------------------------------------------------------------------
\* binary32 arithmetic
\* ------------------------------------------------------------------------
RECURSIVE Pow2Rec(_)
Pow2Rec(k) == IF k <= 0 THEN 1 ELSE 2 * Pow2Rec(k - 1)

Pow2Tab == [k \in 0..30 |-> Pow2Rec(k)]

Pow2(k) == Pow2Tab[k]

Two12 == Pow2(12)
Two23 == Pow2(23)
Two24 == Pow2(24)

F32Zero == [m |-> 0, e |-> 0]
F32NaN == [m |-> -1, e |-> 0]
IsNaN(x) == x.m < 0

\* Shift an integer 0 < n < 2^24 left until its top bit is bit 23.
RECURSIVE NormUp(_, _)
NormUp(n, e) == IF n >= Two23 THEN [m |-> n, e |-> e] ELSE NormUp(2 * n, e - 1)

\* float32(n) for an integer 0 <= n < 2^24 (exact).
F32FromInt(n) == IF n = 0 THEN F32Zero ELSE NormUp(n, 0)

F32One == F32FromInt(1)

\* Round the value (q + frac) * 2^e to 24 bits, where q < 2^25 and frac is
\* given by its comparison with one half: cmp = -1 (below), 0 (tie), 1 (above);
\* a frac of exactly zero is passed as cmp = -1.
RoundPack(q, cmp, e) ==
    LET up == cmp > 0 \/ (cmp = 0 /\ q % 2 = 1)
        r == IF up THEN q + 1 ELSE q
    IN IF r = 0 THEN F32Zero
       ELSE IF r >= Two24 THEN [m |-> r \div 2, e |-> e + 1]
       ELSE [m |-> r, e |-> e]

Cmp(a, b) == IF a > b THEN 1 ELSE IF a = b THEN 0 ELSE -1

\* k further quotient bits of r / d by shift and subtract (r < d).
RECURSIVE LongDiv(_, _, _, _)
LongDiv(r, d, k, q) ==
    IF k = 0 THEN <<q, r>>
    ELSE IF 2 * r >= d THEN LongDiv(2 * r - d, d, k - 1, 2 * q + 1)
         ELSE LongDiv(2 * r, d, k - 1, 2 * q)

\* x / y
F32Div(x, y) ==
    IF IsNaN(x) \/ IsNaN(y) \/ y.m = 0 THEN F32NaN
    ELSE IF x.m = 0 THEN F32Zero
    ELSE LET ge == x.m >= y.m
             qr == IF ge THEN LongDiv(x.m - y.m, y.m, 23, 1)
                         ELSE LongDiv(x.m, y.m, 24, 0)
             ex == IF ge THEN x.e - y.e - 23 ELSE x.e - y.e - 24
             rem == qr[2]
             cmp == IF rem = 0 THEN -1 ELSE Cmp(2 * rem, y.m)
         IN RoundPack(qr[1], cmp, ex)

\* x * y : the 48-bit product is formed from 12-bit limbs.
F32Mul(x, y) ==
    IF IsNaN(x) \/ IsNaN(y) THEN F32NaN
    ELSE IF x.m = 0 \/ y.m = 0 THEN F32Zero
    ELSE LET a1 == x.m \div Two12
             a0 == x.m % Two12
             b1 == y.m \div Two12
             b0 == y.m % Two12
             mid == a1 * b0 + a0 * b1
             t == a0 * b0 + (mid % Two12) * Two12
             lo == t % Two24
             hi == a1 * b1 + (mid \div Two12) + (t \div Two24)
         IN IF hi >= Two23
            THEN RoundPack(hi, IF lo = 0 THEN -1 ELSE Cmp(lo, Two23), x.e + y.e + 24)
            ELSE LET l2 == lo % Two23
                 IN RoundPack(2 * hi + (lo \div Two23),
                              IF l2 = 0 THEN -1 ELSE Cmp(2 * l2, Two23),
                              x.e + y.e + 23)

\* x + y for x >= y >= 0 (callers order the operands with F32Add).
AddOrdered(x, y) ==
    LET d == x.e - y.e
    IN IF y.m = 0 \/ d >= 26 THEN x
       ELSE LET p == Pow2(d)
                q == y.m \div p
                rem == y.m % p
                s == x.m + q
            IN IF s < Two24
               THEN RoundPack(s, IF rem = 0 THEN -1 ELSE Cmp(2 * rem, p), x.e)
               ELSE LET low == (s % 2) * p + rem
                    IN RoundPack(s \div 2, IF low = 0 THEN -1 ELSE Cmp(low, p), x.e + 1)

F32Less(x, y) ==
    /\ ~IsNaN(x)
    /\ ~IsNaN(y)
    /\ IF x.m = 0 THEN y.m > 0
       ELSE IF y.m = 0 THEN FALSE
       ELSE x.e < y.e \/ (x.e = y.e /\ x.m < y.m)

F32Add(x, y) ==
    IF IsNaN(x) \/ IsNaN(y) THEN F32NaN
    ELSE IF F32Less(x, y) THEN AddOrdered(y, x) ELSE AddOrdered(x, y)

\* int(math.Round(float64(v))) for v >= 0: round half away from zero.
F32Round(x) ==
    IF x.m <= 0 THEN 0
    ELSE IF x.e >= 0 THEN x.m * Pow2(x.e)
    ELSE IF 0 - x.e > 25 THEN 0
    ELSE LET p == Pow2(0 - x.e)
         IN (x.m \div p) + (IF 2 * (x.m % p) >= p THEN 1 ELSE 0)

\* ------------------------------------------------------------------------
\* thumbhash.go : helpers and proxy dimensions
\* ------------------------------------------------------------------------
maxThumbDim == 100

max1(v) == IF v < 1 THEN 1 ELSE v

imax(a, b) == IF a > b THEN a ELSE b

boolU32(b) == IF b THEN 1 ELSE 0

\* roundF with ties going to the even neighbour
roundFEven(v) ==
    IF v.m <= 0 THEN 0
    ELSE IF v.e >= 0 THEN v.m * Pow2(v.e)
    ELSE IF 0 - v.e > 25 THEN 0
    ELSE LET p == Pow2(0 - v.e)
             q == v.m \div p
         IN q + (IF 2 * (v.m % p) > p \/ (2 * (v.m % p) = p /\ q % 2 = 1) THEN 1 ELSE 0)

\* roundF(float32(a) / float32(b)) as written at the call sites of roundF
roundF(v) == F32Round(v)

\* thumbDims with the shorter side rounded to nearest instead of truncated
thumbDimsRounded(srcW, srcH) ==
    IF srcW <= maxThumbDim /\ srcH <= maxThumbDim THEN <<srcW, srcH>>
    ELSE IF srcW >= srcH
         THEN <<maxThumbDim, max1((2 * srcH * maxThumbDim + srcW) \div (2 * srcW))>>
         ELSE <<max1((2 * srcW * maxThumbDim + srcH) \div (2 * srcH)), maxThumbDim>>

thumbDims(srcW, srcH) ==
    IF srcW <= maxThumbDim /\ srcH <= maxThumbDim THEN <<srcW, srcH>>
    ELSE IF srcW >= srcH
         THEN <<maxThumbDim, max1((srcH * maxThumbDim) \div srcW)>>
         ELSE <<max1((srcW * maxThumbDim) \div srcH), maxThumbDim>>

\* srcSpan without the s1 <= s0 repair
srcSpanBare(d, dstSize, srcSize) ==
    LET s0 == (d * srcSize) \div dstSize
        s1a == ((d + 1) * srcSize) \div dstSize
    IN <<s0, IF s1a > srcSize THEN srcSize ELSE s1a>>

\* srcSpan with an inclusive end: one sample more on the right
srcSpanInclusive(d, dstSize, srcSize) ==
    LET s0 == (d * srcSize) \div dstSize
        s1a == ((d + 1) * srcSize) \div dstSize + 1
    IN <<s0, IF s1a > srcSize THEN srcSize ELSE s1a>>

srcSpan(d, dstSize, srcSize) ==
    LET s0 == (d * srcSize) \div dstSize
        s1a == ((d + 1) * srcSize) \div dstSize
        s1b == IF s1a <= s0 THEN s0 + 1 ELSE s1a
        s1 == IF s1b > srcSize THEN srcSize ELSE s1b
    IN <<s0, s1>>

\* ------------------------------------------------------------------------
\* assembleHash : basis selection, AC partition, hash length
\* ------------------------------------------------------------------------
BasisDimExpr(limit, side, maxWH) ==
    max1(roundF(F32Div(F32FromInt(limit * side), F32FromInt(maxWH))))

\* The same expression tabulated over the proxy sizes (evaluated once).
BasisDimTab ==
    [limit \in {3, 5, 7} |->
       [maxWH \in 1..maxThumbDim |->
          [side \in 1..maxWH |-> BasisDimExpr(limit, side, maxWH)]]]

BasisDim(limit, side, maxWH) ==
    IF maxWH \in 1..maxThumbDim /\ side \in 1..maxWH
    THEN BasisDimTab[limit][maxWH][side]
    ELSE BasisDimExpr(limit, side, maxWH)

LumaLimit(hasAlpha) == IF hasAlpha THEN 5 ELSE 7

Basis(w, h, hasAlpha) ==
    LET lLimit == LumaLimit(hasAlpha)
        maxWH == imax(w, h)
    IN [lx |-> BasisDim(lLimit, w, maxWH),
        ly |-> BasisDim(lLimit, h, maxWH),
        px |-> BasisDim(3, w, maxWH),
        py |-> BasisDim(3, h, maxWH),
        ax |-> IF hasAlpha THEN BasisDim(5, w, maxWH) ELSE 0,
        ay |-> IF hasAlpha THEN BasisDim(5, h, maxWH) ELSE 0]

\* lN, pN, qN, aN
ACCounts(b, hasAlpha) ==
    [lN |-> b.lx * b.ly - 1,
     pN |-> b.px * b.py - 1,
     qN |-> b.px * b.py - 1,
     aN |-> IF hasAlpha THEN b.ax * b.ay - 1 ELSE 0]

TotalAC(n) == n.lN + n.pN + n.qN + n.aN

HashLenFloor(totalAC, hasAlpha) == (IF hasAlpha THEN 8 ELSE 6) + (totalAC \div 2)

HashLen(totalAC, hasAlpha) == (IF hasAlpha THEN 8 ELSE 6) + ((totalAC + 1) \div 2)

\* ------------------------------------------------------------------------
\* assembleHash : header, header2, alphaHdr, packAC
\* ------------------------------------------------------------------------
RECURSIVE BitOr(_, _)
BitOr(a, b) ==
    IF a = 0 THEN b
    ELSE IF b = 0 THEN a
    ELSE (IF a % 2 = 1 \/ b % 2 = 1 THEN 1 ELSE 0) + 2 * BitOr(a \div 2, b \div 2)

Shl(a, k) == a * Pow2(k)

Shr(a, k) == a \div Pow2(k)

byte(v) == v % 256

\* Header with the dimension nibble taken from the side that is at lLimit
HeaderSwapped(q, hasAlpha, isLandscape, lx, ly) ==
    LET h0 == BitOr(BitOr(BitOr(BitOr(q.lDC, Shl(q.pDC, 6)), Shl(q.qDC, 12)),
                          Shl(q.lScale, 18)), Shl(boolU32(hasAlpha), 23))
        h1 == BitOr(h0, Shl(IF isLandscape THEN lx ELSE ly, 24))
    IN BitOr(h1, Shl(boolU32(isLandscape), 28))

\* q holds the quantized integers math.Round produced for the DC and scale
\* fields; it is an input of the packing step.
Header(q, hasAlpha, isLandscape, lx, ly) ==
    LET h0 == BitOr(BitOr(BitOr(BitOr(q.lDC, Shl(q.pDC, 6)), Shl(q.qDC, 12)),
                          Shl(q.lScale, 18)), Shl(boolU32(hasAlpha), 23))
        h1 == BitOr(h0, Shl(IF isLandscape THEN ly ELSE lx, 24))
    IN BitOr(h1, Shl(boolU32(isLandscape), 28))

Header2(q) == BitOr(q.pScale, Shl(q.qScale, 6))

AlphaHdr(q, hasAlpha) == IF hasAlpha THEN BitOr(q.aDC, Shl(q.aScale, 4)) ELSE 0

ACOffset(hasAlpha) == IF hasAlpha THEN 8 ELSE 6

\* packAC over lAC, pAC, qAC, aAC in turn: nibs is their concatenation
\* (nibble k of the stream, k = 1 .. totalAC); low nibble first.
PackedACByte(nibs, j) ==
    LET lo == IF 2 * j + 1 <= Len(nibs) THEN nibs[2 * j + 1] ELSE 0
        hi == IF 2 * j + 2 <= Len(nibs) THEN nibs[2 * j + 2] ELSE 0
    IN byte(BitOr(lo, byte(Shl(hi, 4))))

\* The bytes of the hash: make([]byte, hashLen) and the stores into it.
PackHash(q, hasAlpha, isLandscape, lx, ly, nibs) ==
    LET header == Header(q, hasAlpha, isLandscape, lx, ly)
        header2 == Header2(q)
        alphaHdr == AlphaHdr(q, hasAlpha)
        acOff == ACOffset(hasAlpha)
        hashLen == HashLen(Len(nibs), hasAlpha)
    IN [i \in 1..hashLen |->
          IF i = 1 THEN byte(header)
          ELSE IF i = 2 THEN byte(Shr(header, 8))
          ELSE IF i = 3 THEN byte(Shr(header, 16))
          ELSE IF i = 4 THEN byte(Shr(header, 24))
          ELSE IF i = 5 THEN byte(header2)
          ELSE IF i = 6 THEN byte(Shr(header2, 8))
          ELSE IF hasAlpha /\ i = 7 THEN byte(alphaHdr)
          ELSE IF hasAlpha /\ i = 8 THEN byte(Shr(alphaHdr, 8))
          ELSE PackedACByte(nibs, i - 1 - acOff)]

\* Every store of packAC lands inside the allocated hash.
PackInBounds(totalAC, hasAlpha) ==
    totalAC = 0 \/ ACOffset(hasAlpha) + ((totalAC - 1) \div 2) < HashLen(totalAC, hasAlpha)

\* ------------------------------------------------------------------------
\* JavaScript numbers (IEEE-754 binary64, round to nearest even).  A wide
\* natural is 8 limbs of 14 bits, least significant first; a number is
\* [s, m, e] with value (-1)^s * m * 2^e and m a wide natural of exactly 53
\* bits, or m = 0.  Overflow, subnormals and infinities do not arise for the
\* magnitudes of the decoder (|x| < 2^30, never nonzero below 2^-200).
\* ------------------------------------------------------------------------
LimbBase == Pow2(14)
Limbs == 1..8
BigZero == <<0, 0, 0, 0, 0, 0, 0, 0>>

Limb(a, i) == IF i \in Limbs THEN a[i] ELSE 0

\* n in 0 .. 2^31 - 1
BigFromInt(n) ==
    <<n % LimbBase, (n \div LimbBase) % LimbBase, n \div (LimbBase * LimbBase),
      0, 0, 0, 0, 0>>

\* a < 2^31
BigToInt(a) == a[1] + LimbBase * a[2] + LimbBase * LimbBase * a[3]

RECURSIVE BigAddFrom(_, _, _, _)
BigAddFrom(a, b, i, carry) ==
    IF i > 8 THEN <<>>
    ELSE LET t == a[i] + b[i] + carry
         IN <<t % LimbBase>> \o BigAddFrom(a, b, i + 1, t \div LimbBase)

BigAdd(a, b) == BigAddFrom(a, b, 1, 0)

\* a >= b
RECURSIVE BigSubFrom(_, _, _, _)
BigSubFrom(a, b, i, borrow) ==
    IF i > 8 THEN <<>>
    ELSE LET t == a[i] - b[i] - borrow
         IN IF t < 0 THEN <<t + LimbBase>> \o BigSubFrom(a, b, i + 1, 1)
            ELSE <<t>> \o BigSubFrom(a, b, i + 1, 0)

BigSub(a, b) == BigSubFrom(a, b, 1, 0)

\* -1, 0, 1
BigCmp(a, b) ==
    LET d == {i \in Limbs : a[i] # b[i]}
    IN IF d = {} THEN 0
       ELSE LET k == CHOOSE i \in d : \A j \in d : j <= i
            IN IF a[k] > b[k] THEN 1 ELSE -1

\* a, b < 2^56: at most four products of 28 bits in a column
BigMulColumn(a, b, k) ==
    LET P(i) == IF k + 1 - i \in 1..4 THEN a[i] * b[k + 1 - i] ELSE 0
    IN P(1) + P(2) + P(3) + P(4)

RECURSIVE BigMulFrom(_, _, _, _)
BigMulFrom(a, b, k, carry) ==
    IF k > 8 THEN <<>>
    ELSE LET t == BigMulColumn(a, b, k) + carry
         IN <<t % LimbBase>> \o BigMulFrom(a, b, k + 1, t \div LimbBase)

BigMul(a, b) == BigMulFrom(a, b, 1, 0)

\* a * 2^n, which must stay below 2^112
BigShl(a, n) ==
    LET q == n \div 14
        r == n % 14
        L(i) == ((Limb(a, i - q) * Pow2(r)) % LimbBase)
                + ((Limb(a, i - q - 1) * Pow2(r)) \div LimbBase)
    IN <<L(1), L(2), L(3), L(4), L(5), L(6), L(7), L(8)>>

\* floor(a / 2^n)
BigShr(a, n) ==
    LET q == n \div 14
        r == n % 14
        L(i) == (Limb(a, i + q) \div Pow2(r))
                + ((Limb(a, i + q + 1) % Pow2(r)) * Pow2(14 - r))
    IN <<L(1), L(2), L(3), L(4), L(5), L(6), L(7), L(8)>>

\* a mod 2^n # 0
BigLowBits(a, n) ==
    LET q == n \div 14
        r == n % 14
    IN \/ \E i \in Limbs : i <= q /\ a[i] # 0
       \/ Limb(a, q + 1) % Pow2(r) # 0

BigBitLen(a) ==
    LET d == {i \in Limbs : a[i] # 0}
    IN IF d = {} THEN 0
       ELSE LET k == CHOOSE i \in d : \A j \in d : j <= i
                b == CHOOSE j \in 1..14 : Pow2(j - 1) <= a[k] /\ a[k] < Pow2(j)
            IN 14 * (k - 1) + b

BigOdd(a) == a[1] % 2 = 1

BigOne == BigFromInt(1)

F64Zero == [s |-> 0, m |-> BigZero, e |-> 0]

F64IsZero(x) == x.m = BigZero

\* The number nearest to (-1)^s * (a + d) * 2^e, where 0 <= d < 1 and d > 0
\* exactly when sticky; a sticky a has at least 55 bits.
\* q with the bits below it rounded in: half is the first of them, rest
\* whether any lower one is set
F64RoundUp(q, half, rest) ==
    IF half /\ (rest \/ BigOdd(q)) THEN BigAdd(q, BigOne) ELSE q

\* the rounding may have carried into bit 54
F64Renorm(s, q1, e) ==
    IF BigBitLen(q1) = 54 THEN [s |-> s, m |-> BigShr(q1, 1), e |-> e + 1]
    ELSE [s |-> s, m |-> q1, e |-> e]

\* len is the bit length of a
F64PackLen(s, a, e, sticky, len) ==
    IF len = 0 THEN F64Zero
    ELSE IF len <= 53 THEN [s |-> s, m |-> BigShl(a, 53 - len), e |-> e - (53 - len)]
    ELSE F64Renorm(s,
                   F64RoundUp(BigShr(a, len - 53), BigOdd(BigShr(a, len - 54)),
                              sticky \/ BigLowBits(a, len - 54)),
                   e + (len - 53))

F64Pack(s, a, e, sticky) == F64PackLen(s, a, e, sticky, BigBitLen(a))

\* an integer of the program, |n| < 2^31
F64FromInt(n) ==
    F64Pack(IF n < 0 THEN 1 ELSE 0, BigFromInt(IF n < 0 THEN -n ELSE n), 0, FALSE)

F64Neg(x) == [x EXCEPT !.s = 1 - @]

F64Mul(x, y) ==
    IF F64IsZero(x) \/ F64IsZero(y) THEN F64Zero
    ELSE F64Pack((x.s + y.s) % 2, BigMul(x.m, y.m), x.e + y.e, FALSE)

\* |x| >= |y|, both nonzero, x.e >= y.e
F64AddMag(x, y, a) ==
    F64Pack(x.s, IF x.s = y.s THEN BigAdd(a, y.m) ELSE BigSub(a, y.m), y.e, FALSE)

F64AddAligned(x, y) ==
    IF x.e - y.e > 58 THEN x ELSE F64AddMag(x, y, BigShl(x.m, x.e - y.e))

\* |x| < |y|
F64MagLess(x, y) ==
    IF F64IsZero(y) THEN FALSE
    ELSE IF F64IsZero(x) THEN TRUE
    ELSE IF x.e # y.e THEN x.e < y.e
    ELSE BigCmp(x.m, y.m) < 0

F64Add(x, y) ==
    IF F64IsZero(x) THEN y
    ELSE IF F64IsZero(y) THEN x
    ELSE F64AddAligned(IF F64MagLess(x, y) THEN y ELSE x,
                       IF F64MagLess(x, y) THEN x ELSE y)

F64Sub(x, y) == F64Add(x, F64Neg(y))

\* x < y
F64Less(x, y) ==
    IF F64IsZero(x) /\ F64IsZero(y) THEN FALSE
    ELSE IF F64IsZero(x) THEN y.s = 0
    ELSE IF F64IsZero(y) THEN x.s = 1
    ELSE IF x.s # y.s THEN x.s = 1
    ELSE IF x.s = 0 THEN F64MagLess(x, y)
    ELSE F64MagLess(y, x)

\* One digit of the long division: the largest t with t * d <= r * 2^14,
\* for r < d and d of exactly 53 bits.  The estimate from the leading bits
\* is at most 3 short.
\* q is the quotient so far, already shifted by one digit.
RECURSIVE BigDigitUp(_, _, _, _)
BigDigitUp(rem, d, t, q) ==
    IF BigCmp(rem, d) >= 0 THEN BigDigitUp(BigSub(rem, d), d, t + 1, q)
    ELSE [q |-> BigAdd(q, BigFromInt(t)), rem |-> rem]

BigDigitEst(num, d) == BigToInt(BigShr(num, 39)) \div (BigToInt(BigShr(d, 39)) + 1)

BigDigitFrom(num, d, est, q) ==
    BigDigitUp(BigSub(num, BigMul(d, BigFromInt(est))), d, est, q)

BigDigitOf(num, d, q) == BigDigitFrom(num, d, BigDigitEst(num, d), q)

\* g = [q, rem]: the quotient and the remainder after one more digit
BigDivDigit(g, d) == BigDigitOf(BigShl(g.rem, 14), d, BigShl(g.q, 14))

\* floor(n * 2^(14 k) / d) and whether the division left a remainder, for
\* n < d * 2^14; g holds the quotient and remainder so far, and once the
\* remainder is zero the digits left are zeros
RECURSIVE BigDivFrom(_, _, _)
BigDivFrom(g, d, k) ==
    IF k = 0 \/ g.rem = BigZero
    THEN [q |-> BigShl(g.q, 14 * k), sticky |-> g.rem # BigZero]
    ELSE BigDivFrom(BigDivDigit(g, d), d, k - 1)

\* the integer digit of the quotient of two 53-bit numbers: 1 or 0
F64DivFirst(xm, ym) ==
    IF BigCmp(xm, ym) >= 0 THEN [q |-> BigOne, rem |-> BigSub(xm, ym)]
    ELSE [q |-> BigZero, rem |-> xm]

F64DivPack(s, g, e) == F64Pack(s, g.q, e, g.sticky)

\* y nonzero
F64Div(x, y) ==
    IF F64IsZero(x) THEN F64Zero
    ELSE F64DivPack((x.s + y.s) % 2, BigDivFrom(F64DivFirst(x.m, y.m), y.m, 5),
                    x.e - y.e - 5 * 14)

\* Math.round: the integer nearest to x, ties toward +infinity; |x| < 2^30
F64RoundMag(x) ==
    IF F64IsZero(x) \/ x.e < -55 THEN 0
    ELSE IF x.e >= 0 THEN BigToInt(BigShl(x.m, x.e))
    ELSE BigToInt(BigShr(BigAdd(x.m, BigShl(BigOne, -x.e - 1)), -x.e))

\* mag is F64RoundMag(x); a negative tie goes up
F64RoundSigned(x, mag) ==
    IF x.s = 0 THEN mag
    ELSE IF F64IsZero(x) \/ x.e < -55 \/ x.e >= 0 THEN -mag
    ELSE IF BigLowBits(BigAdd(x.m, BigShl(BigOne, -x.e - 1)), -x.e) THEN -mag
    ELSE -(mag - 1)

F64Round(x) == F64RoundSigned(x, F64RoundMag(x))

\* the number just below a positive x that is not a power of two
F64Pred(x) == [x EXCEPT !.m = BigSub(@, BigOne)]

\* the decimal literal p / 10^k of the source text
F64Lit(p, q) == F64Div(F64FromInt(p), F64FromInt(q))

\* ------------------------------------------------------------------------
\* thumbHashToRGBA (TypeScript decoder) : header parse and readAC
\* ------------------------------------------------------------------------
\* hash[i] of a Uint8Array: undefined past the end, which the bit operators
\* coerce to 0.
\* a read past the end that yields all ones
ByteAtOnes(hash, i) == IF i + 1 <= Len(hash) THEN hash[i + 1] ELSE 255

ByteAt(hash, i) == IF i + 1 <= Len(hash) THEN hash[i + 1] ELSE 0

\* b << 24 in JavaScript is a signed 32-bit value.
Shl24Signed(b) == (IF b >= 128 THEN b - 256 ELSE b) * Pow2(24)

And(a, mask) == a % (mask + 1)

\* the fields read with a 5-bit mask for pDC and qDC
HeaderFieldsMask5(header, header2, alphaHeader) ==
    LET hasAlpha == And(Shr(header, 23), 1) = 1
        dimFlag == And(Shr(header, 24), 15)
        isLandscape == And(Shr(header, 28), 1) = 1
        lLimit == IF hasAlpha THEN 5 ELSE 7
    IN [lDC |-> And(header, 63),
        pDC |-> And(Shr(header, 6), 31),
        qDC |-> And(Shr(header, 12), 31),
        lScale |-> And(Shr(header, 18), 31),
        hasAlpha |-> hasAlpha,
        dimFlag |-> dimFlag,
        isLandscape |-> isLandscape,
        pScale |-> And(header2, 63),
        qScale |-> And(Shr(header2, 6), 63),
        lx |-> IF isLandscape THEN lLimit ELSE imax(1, dimFlag),
        ly |-> IF isLandscape THEN imax(1, dimFlag) ELSE lLimit,
        aDC |-> IF hasAlpha THEN And(alphaHeader, 15) ELSE 15,
        aScale |-> IF hasAlpha THEN And(Shr(alphaHeader, 4), 15) ELSE 0,
        acOffset |-> IF hasAlpha THEN 8 ELSE 6]

\* the fields, given the three little-endian words of the hash
HeaderFields(header, header2, alphaHeader) ==
    LET hasAlpha == And(Shr(header, 23), 1) = 1
        dimFlag == And(Shr(header, 24), 15)
        isLandscape == And(Shr(header, 28), 1) = 1
        lLimit == IF hasAlpha THEN 5 ELSE 7
    IN [lDC |-> And(header, 63),
        pDC |-> And(Shr(header, 6), 63),
        qDC |-> And(Shr(header, 12), 63),
        lScale |-> And(Shr(header, 18), 31),
        hasAlpha |-> hasAlpha,
        dimFlag |-> dimFlag,
        isLandscape |-> isLandscape,
        pScale |-> And(header2, 63),
        qScale |-> And(Shr(header2, 6), 63),
        lx |-> IF isLandscape THEN lLimit ELSE imax(1, dimFlag),
        ly |-> IF isLandscape THEN imax(1, dimFlag) ELSE lLimit,
        aDC |-> IF hasAlpha THEN And(alphaHeader, 15) ELSE 15,
        aScale |-> IF hasAlpha THEN And(Shr(alphaHeader, 4), 15) ELSE 0,
        acOffset |-> IF hasAlpha THEN 8 ELSE 6]

ParseHeader(hash) ==
    HeaderFields(ByteAt(hash, 0) + Shl(ByteAt(hash, 1), 8) + Shl(ByteAt(hash, 2), 16)
                 + Shl24Signed(ByteAt(hash, 3)),
                 ByteAt(hash, 4) + Shl(ByteAt(hash, 5), 8),
                 ByteAt(hash, 6) + Shl(ByteAt(hash, 7), 8))

\* a reader that repeats the last byte of the hash once past its end
ReadNibbleClamped(hash, acOffset, k) ==
    LET byteIdx == acOffset + Shr(k, 1)
        b == IF Len(hash) = 0 THEN 0
             ELSE hash[IF byteIdx + 1 <= Len(hash) THEN byteIdx + 1 ELSE Len(hash)]
    IN IF k % 2 = 0 THEN And(b, 15) ELSE And(Shr(b, 4), 15)

\* The nibble readAC takes at stream position k (offset.value = k).
ReadNibble(hash, acOffset, k) ==
    LET byteIdx == acOffset + Shr(k, 1)
    IN IF k % 2 = 0 THEN And(ByteAt(hash, byteIdx), 15)
       ELSE And(Shr(ByteAt(hash, byteIdx), 4), 15)

\* readAC(count, offset) starting at stream position from.
readAC(hash, acOffset, count, from) ==
    [i \in 1..count |-> ReadNibble(hash, acOffset, from + i - 1)]

\* the alpha readAC call with the count fixed at 5 * 5 - 1
DecCountsAlpha24(hd) ==
    [lN |-> hd.lx * hd.ly - 1,
     pN |-> 3 * 3 - 1,
     qN |-> 3 * 3 - 1,
     aN |-> IF hd.hasAlpha THEN 5 * 5 - 1 ELSE 0]

\* The four readAC calls: how many coefficients each channel takes.
DecCounts(hd) ==
    [lN |-> hd.lx * hd.ly - 1,
     pN |-> 3 * 3 - 1,
     qN |-> 3 * 3 - 1,
     aN |-> IF hd.hasAlpha THEN hd.lx * hd.ly - 1 ELSE 0]

\* Math.round(32 / ratio) with ratio = a / b, both divisions in binary64
Round32Expr(a, b) == F64Round(F64Div(F64FromInt(32), F64Div(F64FromInt(a), F64FromInt(b))))

Round32Tab == [a \in 1..15, b \in 1..15 |-> Round32Expr(a, b)]

Round32Over(a, b) == Round32Tab[a, b]

\* the size with the scaled side exchanged for the fixed one
OutputSizeSwapped(hd) ==
    IF hd.isLandscape
    THEN <<IF hd.lx > hd.ly THEN Round32Over(hd.lx, hd.ly) ELSE 32, 32>>
    ELSE <<32, IF hd.ly > hd.lx THEN Round32Over(hd.ly, hd.lx) ELSE 32>>

OutputSize(hd) ==
    IF hd.isLandscape
    THEN <<32, IF hd.lx > hd.ly THEN Round32Over(hd.lx, hd.ly) ELSE 32>>
    ELSE <<IF hd.ly > hd.lx THEN Round32Over(hd.ly, hd.lx) ELSE 32, 32>>

\* thumbHashToRGBA as far as the parse goes: it returns {w, h, rgba} and has
\* no failure path; dev is __TGIMG_DEV__.
\* what the call holds once the header hd is parsed, the counts n are
\* fixed and the output size wh is computed
ParsedHash(hash, dev, hd, n, wh) ==
    [status |-> "ok",
     warnShort |-> dev /\ Len(hash) < 6,
     hd |-> hd,
     lAC |-> readAC(hash, hd.acOffset, n.lN, 0),
     pAC |-> readAC(hash, hd.acOffset, n.pN, n.lN),
     qAC |-> readAC(hash, hd.acOffset, n.qN, n.lN + n.pN),
     aAC |-> readAC(hash, hd.acOffset, n.aN, n.lN + n.pN + n.qN),
     w |-> wh[1],
     h |-> wh[2],
     rgbaLen |-> wh[1] * wh[2] * 4]

ParsedHeader(hash, dev, hd) == ParsedHash(hash, dev, hd, DecCounts(hd), OutputSize(hd))

thumbHashToRGBA(hash, dev) == ParsedHeader(hash, dev, ParseHeader(hash))

\* ------------------------------------------------------------------------
\* Decoder: pixels.  A buffer of w x h pixels is held by its two bands of
\* rows, rgba[1] for the rows y with 2 y < h and rgba[2] for the others;
\* all pixels of a band carry the same four bytes.
\* ------------------------------------------------------------------------
\* the numbers 0 .. 255 are tabulated
F64Byte == [n \in 0..255 |-> F64FromInt(n)]

F64Of(n) == IF n \in 0..255 THEN F64Byte[n] ELSE F64FromInt(n)

\* the literals of the source text
TwoThirds == F64Div(F64FromInt(2), F64FromInt(3))
LumaR == F64Lit(2126, 10000)
LumaG == F64Lit(7152, 10000)
LumaB == F64Lit(722, 10000)
ChromaNear == F64Lit(55, 100)
ChromaMid == F64Lit(40, 100)
ChromaFar == F64Lit(28, 100)
BiasGain == F64Lit(45, 100)

\* raw / 63, raw / 31 - 1 and raw / 15 for every raw field value
Over63 == [n \in 0..63 |-> F64Div(F64FromInt(n), F64FromInt(63))]
Over31 == [n \in 0..63 |-> F64Div(F64FromInt(n), F64FromInt(31))]
Over31Less1 == [n \in 0..63 |-> F64Sub(Over31[n], F64FromInt(1))]
Over15 == [n \in 0..15 |-> F64Div(F64FromInt(n), F64FromInt(15))]

\* aScale is 0.0 and aDC is 1.0 without alpha
DecodeDC(hd) ==
    [l |-> Over63[hd.lDC], p |-> Over31Less1[hd.pDC], q |-> Over31Less1[hd.qDC],
     a |-> Over15[hd.aDC]]

\* Each term lAC[i] * lScale * fx * fy is a zero when the scale is 0, so the
\* channel ends at its DC value.  Otherwise the terms go through Math.cos,
\* which the language leaves implementation-approximated: the value the
\* accumulation ends at in a band is the outcome t of that build.
Accumulated(dc, scale, t) == IF scale = 0 THEN dc ELSE t

\* a store into a Uint8Array keeps the value modulo 256
Uint8(n) == n % 256

\* max(0, min(255, n))
Clamp255(n) == imax(0, IF n > 255 THEN 255 ELSE n)

\* rgba[idx] = max(0, min(255, round(v * 255)))
ByteOf(v) == Uint8(Clamp255(F64Round(F64Mul(v, F64Of(255)))))

\* LPQA -> RGBA of one pixel
PixelRGB(r, q, b, a) == <<ByteOf(r), ByteOf(F64Sub(r, q)), ByteOf(b), ByteOf(a)>>

PixelB(l, q, b, a) ==
    PixelRGB(F64Div(F64Add(F64Sub(F64Mul(F64Of(3), l), b), q), F64Of(2)), q, b, a)

PixelOf(l, p, q, a) == PixelB(l, q, F64Sub(l, F64Mul(TwoThirds, p)), a)

\* The loop over y and x: tex[k] is what the cosine sums come to in band k.
inverseDCT(hd, tex) ==
    LET dc == DecodeDC(hd)
    IN [k \in 1..2 |->
          PixelOf(Accumulated(dc.l, hd.lScale, tex[k].l),
                  Accumulated(dc.p, hd.pScale, tex[k].p),
                  Accumulated(dc.q, hd.qScale, tex[k].q),
                  IF hd.hasAlpha THEN Accumulated(dc.a, hd.aScale, tex[k].a)
                  ELSE dc.a)]

\* rows of band k, and the pixel count n = w * h by bands
BandRows(h, k) == IF k = 1 THEN (h + 1) \div 2 ELSE h - ((h + 1) \div 2)
BandCount(w, h, k) == w * BandRows(h, k)

Luma(px) ==
    F64Add(F64Add(F64Mul(LumaR, F64Of(px[1])), F64Mul(LumaG, F64Of(px[2]))),
           F64Mul(LumaB, F64Of(px[3])))

\* round(y + (v - y) * cc)
Toward(y, v, cc) == F64Round(F64Add(y, F64Mul(F64Sub(F64Of(v), y), cc)))

\* attenuation that uses c as given, without Math.max(0, c)
\* one pixel of luminance y pulled toward it by cc
AttenuatePixel(px, y, cc) ==
    <<Uint8(Toward(y, px[1], cc)), Uint8(Toward(y, px[2], cc)),
      Uint8(Toward(y, px[3], cc)), px[4]>>

AttenuateBy(rgba, cc) == [k \in 1..2 |-> AttenuatePixel(rgba[k], Luma(rgba[k]), cc)]

attenuateChromaUnclamped(rgba, c) == AttenuateBy(rgba, c)

attenuateChroma(rgba, c) ==
    AttenuateBy(rgba, IF F64Less(c, F64Zero) THEN F64Zero ELSE c)

\* [rS / n, gS / n, bS / n]
computeAvgRGB(rgba, w, h) ==
    [c \in 1..3 |->
       F64Div(F64Of(BandCount(w, h, 1) * rgba[1][c] + BandCount(w, h, 2) * rgba[2][c]),
              F64Of(w * h))]

\* bias correction that moves the mean all the way to the target
\* rgba[idx + c] = max(0, min(255, round(rgba[idx + c] + d)))
Shifted(v, d) == Uint8(Clamp255(F64Round(F64Add(F64Of(v), d))))

ShiftPixel(px, d) ==
    <<Shifted(px[1], d[1]), Shifted(px[2], d[2]), Shifted(px[3], d[3]), px[4]>>

ShiftBy(rgba, d) == [k \in 1..2 |-> ShiftPixel(rgba[k], d)]

\* the shifts dr, dg, db without the gain
BiasFull(target, avg, gain) == [c \in 1..3 |-> F64Sub(target[c], avg[c])]

\* dr, dg, db
Bias(target, avg, gain) == [c \in 1..3 |-> F64Mul(F64Sub(target[c], avg[c]), gain)]

applyBiasCorrectionFull(rgba, w, h, target, gain) ==
    ShiftBy(rgba, BiasFull(target, computeAvgRGB(rgba, w, h), gain))

applyBiasCorrection(rgba, w, h, target, gain) ==
    ShiftBy(rgba, Bias(target, computeAvgRGB(rgba, w, h), gain))

\* chroma: [given |-> FALSE] for undefined or null, else [given |-> TRUE,
\* nan |-> .., v |-> ..]
NoChroma == [given |-> FALSE]
ChromaOf(v) == [given |-> TRUE, nan |-> FALSE, v |-> v]
ChromaNaN == [given |-> TRUE, nan |-> TRUE, v |-> F64Zero]

\* chroma != null && chroma < 1
Attenuates(chroma) == chroma.given /\ ~chroma.nan /\ F64Less(chroma.v, F64Of(1))

\* thumbHashToRGBA(hash, chroma): {w, h, rgba}
\* the result, given the output size wh and the pixels raw of the loop
Placeholder(chroma, wh, raw) ==
    [w |-> wh[1], h |-> wh[2], len |-> wh[1] * wh[2] * 4,
     rgba |-> IF Attenuates(chroma) THEN attenuateChroma(raw, chroma.v) ELSE raw]

PlaceholderOf(hd, chroma, tex) == Placeholder(chroma, OutputSize(hd), inverseDCT(hd, tex))

toRGBA(hash, chroma, tex) == PlaceholderOf(ParseHeader(hash), chroma, tex)

\* dist <= k in place of dist < k
DistAtMost(s, k) == ~F64Less(F64FromInt(k * k), s)

\* Math.sqrt(s) < k for k = 20, 45: the square root of the number just
\* below k * k already rounds to k, and that of every smaller one does not.
DistLess(s, k) == F64Less(s, F64Pred(F64FromInt(k * k)))

F64Square(x) == F64Mul(x, x)

\* ac = dist < 20 ? 0.55 : dist < 45 ? 0.40 : 0.28
\* s is dr * dr + dg * dg + db * db
ChromaAt(s) ==
    IF DistLess(s, 20) THEN ChromaNear
    ELSE IF DistLess(s, 45) THEN ChromaMid
    ELSE ChromaFar

SquaredDiffs(d) == F64Add(F64Add(F64Square(d[1]), F64Square(d[2])), F64Square(d[3]))

AdaptiveChroma(phAvg, avgColor) ==
    ChromaAt(SquaredDiffs([c \in 1..3 |-> F64Sub(phAvg[c], avgColor[c])]))

\* GOLDEN_FIXTURES.solid_red: the hash of a 64 x 64 solid red image
S1Hash ==
    <<213, 235, 3, 7, 0, 0, 120, 112, 120, 118, 136, 119, 151, 135, 135,
      136, 137, 135, 120, 168, 136, 136, 119, 140, 135, 120, 136, 136,
      120, 120, 120, 112, 151, 135, 120, 112, 151, 135>>

NoColor == <<>>

\* the buffer thumbHashToDataURL hands to rgbaToBmpDataURL; an avgColor that
\* is undefined or null is NoColor
\* the adaptive pipeline on the raw pixels: attenuate by ac, then correct
AdaptiveBy(raw, avgColor, ac) ==
    [raw EXCEPT !.rgba = applyBiasCorrection(
                             IF F64Less(ac, F64Of(1)) THEN attenuateChroma(raw.rgba, ac)
                             ELSE raw.rgba,
                             raw.w, raw.h, avgColor, BiasGain)]

Adaptive(raw, avgColor) ==
    AdaptiveBy(raw, avgColor,
               AdaptiveChroma(computeAvgRGB(raw.rgba, raw.w, raw.h), avgColor))

thumbHashToDataURL(hash, chroma, avgColor, tex) ==
    IF Len(avgColor) >= 3 THEN Adaptive(toRGBA(hash, NoChroma, tex), avgColor)
    ELSE toRGBA(hash, chroma, tex)

\* ------------------------------------------------------------------------
\* Source images.  An image is [layout, W, H, kind]; Pix gives the four
\* bytes stored for pixel (x, y) in the layout's own convention.
\*   red   solidImg(255, 0, 0, 255)
\*   grad  makeNRGBA / makeRGBA of the test suite
\*   veil  red, fully opaque except the last pixel, whose alpha is 254
\*   hole  red, fully opaque except pixel (0, 0), which is fully transparent
\*   raw   the Pix bytes are given pixel by pixel in img.px, row by row
\* In the layout "generic" the four values are those of At(x, y).RGBA(),
\* 16 bits each.
\* ------------------------------------------------------------------------
Pix(img, x, y) ==
    LET pre == img.layout = "RGBA"
    IN CASE img.kind = "red" -> <<255, 0, 0, 255>>
         [] img.kind = "grad" ->
              <<(x * 251) % 256, (y * 179) % 256, ((x + y) * 113) % 256, 255>>
         [] img.kind = "veil" ->
              IF x = img.W - 1 /\ y = img.H - 1
              THEN (IF pre THEN <<254, 0, 0, 254>> ELSE <<255, 0, 0, 254>>)
              ELSE <<255, 0, 0, 255>>
         [] img.kind = "hole" ->
              IF x = 0 /\ y = 0
              THEN (IF pre THEN <<0, 0, 0, 0>> ELSE <<255, 0, 0, 0>>)
              ELSE <<255, 0, 0, 255>>
         [] img.kind = "raw" -> img.px[y * img.W + x + 1]

\* HasAlpha(img): some pixel has alpha < 255.
HasAlpha(img) ==
    \/ img.kind = "veil" /\ img.W >= 1 /\ img.H >= 1
    \/ img.kind = "hole" /\ img.W >= 1 /\ img.H >= 1

F255 == F32FromInt(255)

\* The loops below are evaluated by halving the index range, so that the
\* nesting stays logarithmic; the sums are those of the loops in index order.

\* channel ch summed over x0 <= x < x1 of source row y
RECURSIVE RowSum(_, _, _, _, _)
RowSum(img, ch, y, x0, x1) ==
    IF x1 <= x0 THEN 0
    ELSE IF x1 = x0 + 1 THEN Pix(img, x0, y)[ch]
    ELSE LET mid == (x0 + x1) \div 2
         IN RowSum(img, ch, y, x0, mid) + RowSum(img, ch, y, mid, x1)

\* the row sums summed over y0 <= y < y1
RECURSIVE RowsSum(_, _, _, _, _)
RowsSum(img, ch, sx, y0, y1) ==
    IF y1 <= y0 THEN 0
    ELSE IF y1 = y0 + 1 THEN RowSum(img, ch, y0, sx[1], sx[2])
    ELSE LET mid == (y0 + y1) \div 2
         IN RowsSum(img, ch, sx, y0, mid) + RowsSum(img, ch, sx, mid, y1)

\* the integer accumulators rS, gS, bS, aS of one destination cell
SpanSum(img, ch, sx, sy) == RowsSum(img, ch, sx, sy[1], sy[2])

SpanCount(sx, sy) == (sy[2] - sy[1]) * (sx[2] - sx[1])

\* dsNRGBA with inv = 1 / count, the factor 255 left out
dsNRGBAUnscaled(img, dstW, dstH, dx, dy, ch, old) ==
    LET sx == srcSpan(dx, dstW, img.W)
        sy == srcSpan(dy, dstH, img.H)
        inv == F32Div(F32One, F32FromInt(SpanCount(sx, sy)))
    IN F32Mul(F32FromInt(SpanSum(img, ch, sx, sy)), inv)

\* dsNRGBA: the value stored in channel ch (1..4) of cell (dx, dy)
dsNRGBA(img, dstW, dstH, dx, dy, ch, old) ==
    LET sx == srcSpan(dx, dstW, img.W)
        sy == srcSpan(dy, dstH, img.H)
        inv == F32Div(F32One, F32Mul(F32FromInt(SpanCount(sx, sy)), F255))
    IN F32Mul(F32FromInt(SpanSum(img, ch, sx, sy)), inv)

\* dsRGBA: colour cells are stored only when the alpha sum is positive
dsRGBA(img, dstW, dstH, dx, dy, ch, old) ==
    LET sx == srcSpan(dx, dstW, img.W)
        sy == srcSpan(dy, dstH, img.H)
        aS == SpanSum(img, 4, sx, sy)
    IN IF ch = 4
       THEN F32Div(F32FromInt(aS), F32Mul(F32FromInt(SpanCount(sx, sy)), F255))
       ELSE IF aS > 0
            THEN F32Div(F32FromInt(SpanSum(img, ch, sx, sy)), F32FromInt(aS))
            ELSE old

F65535 == F32FromInt(65535)

\* float32(c) / 65535 / af of one generic pixel; af is float32(ca) / 65535
GenericAlpha(p) == F32Div(F32FromInt(p[4]), F65535)

GenericColour(p, ch) == F32Div(F32Div(F32FromInt(p[ch]), F65535), GenericAlpha(p))

\* one pixel added to an accumulator: colours only where af > 0
GenericTerm(p, ch, acc) ==
    IF ch = 4 THEN F32Add(acc, GenericAlpha(p))
    ELSE IF F32Less(F32Zero, GenericAlpha(p)) THEN F32Add(acc, GenericColour(p, ch))
    ELSE acc

\* the float accumulators rS, gS, bS, aS of dsGeneric over the pixels k..count-1
\* of the span, in the order of the loops
RECURSIVE GenericSum(_, _, _, _, _, _)
GenericSum(img, ch, sx, sy, k, acc) ==
    IF k >= SpanCount(sx, sy) THEN acc
    ELSE GenericSum(img, ch, sx, sy, k + 1,
                    GenericTerm(Pix(img, sx[1] + (k % (sx[2] - sx[1])),
                                    sy[1] + (k \div (sx[2] - sx[1]))), ch, acc))

\* dsGeneric: every cell is stored, the sums scaled by 1 / count
dsGeneric(img, dstW, dstH, dx, dy, ch, old) ==
    LET sx == srcSpan(dx, dstW, img.W)
        sy == srcSpan(dy, dstH, img.H)
    IN F32Mul(GenericSum(img, ch, sx, sy, 0, F32Zero),
              F32Div(F32One, F32FromInt(SpanCount(sx, sy))))

areaDownscale(img, dstW, dstH, dx, dy, ch, old) ==
    IF img.layout = "NRGBA" THEN dsNRGBA(img, dstW, dstH, dx, dy, ch, old)
    ELSE IF img.layout = "generic" THEN dsGeneric(img, dstW, dstH, dx, dy, ch, old)
    ELSE dsRGBA(img, dstW, dstH, dx, dy, ch, old)

\* extractPixels: cases *image.NRGBA and *image.RGBA, and the default case
extractPixels(img, x, y, ch, old) ==
    LET p == Pix(img, x, y)
    IN IF img.layout = "NRGBA" THEN F32Div(F32FromInt(p[ch]), F255)
       ELSE IF img.layout = "generic"
       THEN (IF ch = 4 THEN GenericAlpha(p)
             ELSE IF F32Less(F32Zero, GenericAlpha(p)) THEN GenericColour(p, ch)
             ELSE old)
       ELSE LET a == F32FromInt(p[4])
            IN IF ch = 4 THEN F32Div(a, F255)
               ELSE IF F32Less(F32Zero, a) THEN F32Div(F32FromInt(p[ch]), a)
               ELSE old

\* Reads of the source stay inside it, and stores inside rgba[:n].
SpansInBounds(img, dstW, dstH) ==
    /\ \A dx \in 0..(dstW - 1) :
         LET sx == srcSpan(dx, dstW, img.W) IN 0 <= sx[1] /\ sx[1] < sx[2] /\ sx[2] <= img.W
    /\ \A dy \in 0..(dstH - 1) :
         LET sy == srcSpan(dy, dstH, img.H) IN 0 <= sy[1] /\ sy[1] < sy[2] /\ sy[2] <= img.H

\* A work buffer's rgba array is kept as the sequence of its cells up to the
\* highest index ever stored (index i of the array is element i + 1); the
\* cells beyond are the zeros new(workBuf) put there.
RgbaCap == maxThumbDim * maxThumbDim * 4

NewWorkBuf == [rgba |-> <<>>]

Longer(a, b) == IF a > b THEN a ELSE b

\* zeroF32(wb.rgba[:n])
zeroF32(rgba, n) ==
    [i \in 1..Longer(Len(rgba), n) |-> IF i <= n THEN F32Zero ELSE rgba[i]]

\* The proxy builder chosen by Encode, writing rgba[:n] of the buffer.
BuildProxy(img, dstW, dstH, rgba) ==
    LET n == dstW * dstH * 4
        direct == img.W <= dstW /\ img.H <= dstH
    IN [i \in 1..Longer(Len(rgba), n) |->
          IF i > n THEN rgba[i]
          ELSE LET cell == (i - 1) \div 4
                   ch == ((i - 1) % 4) + 1
                   dx == cell % dstW
                   dy == cell \div dstW
               IN IF direct THEN extractPixels(img, dx, dy, ch, rgba[i])
                  ELSE areaDownscale(img, dstW, dstH, dx, dy, ch, rgba[i])]

\* avgA += a for lo <= i < hi, starting from acc; the left half is reduced
\* to a value before the right half starts from it.
RECURSIVE AlphaSum(_, _, _, _)
AlphaSum(rgba, lo, hi, acc) ==
    IF hi <= lo THEN acc
    ELSE IF hi = lo + 1 THEN F32Add(acc, rgba[lo * 4 + 4])
    ELSE LET mid == (lo + hi) \div 2
             left == {AlphaSum(rgba, lo, mid, acc)}
         IN CHOOSE r \in {AlphaSum(rgba, mid, hi, v) : v \in left} : TRUE

\* assembleHash, first loop and hasAlpha: avgA accumulated in index order
AvgAlpha(rgba, count) ==
    F32Div(AlphaSum(rgba, 0, count, F32Zero), F32FromInt(count))

\* RGBA -> LPQA in place.  The colour cells are kept as the premultiplied
\* r, g, b (colour * alpha); L, P and Q are the fixed linear forms of them.
Premultiply(rgba, count) ==
    [i \in 1..Len(rgba) |->
       IF i > count * 4 \/ i % 4 = 0 THEN rgba[i]
       ELSE F32Mul(rgba[i], rgba[4 * ((i - 1) \div 4) + 4])]

\* Every slice assembleHash takes of the work buffer is inside its array, and
\* every store of packAC inside the hash.
AssembleInBounds(w, h, b, n, hasAlpha) ==
    /\ imax(imax(b.lx, b.px), b.ax) * w <= 8 * maxThumbDim
    /\ imax(imax(b.ly, b.py), b.ay) * h <= 8 * maxThumbDim
    /\ n.lN >= 0 /\ n.pN >= 0 /\ n.aN >= 0
    /\ TotalAC(n) <= 128
    /\ PackInBounds(TotalAC(n), hasAlpha)

ZeroQuant ==
    [lDC |-> 0, pDC |-> 0, qDC |-> 0, lScale |-> 0, pScale |-> 0, qScale |-> 0,
     aDC |-> 0, aScale |-> 0]

\* The hash assembleHash returns for a proxy of w x h held in rgba.  Its
\* length and header bits 23..28 (hasAlpha, dimFlag, isLandscape) are those
\* of the packed bytes; the DCT coefficients are represented by the LPQA
\* data they are computed from.
assembleHash(w, h, rgba) ==
    LET count == w * h
        hasAlpha == F32Less(AvgAlpha(rgba, count), F32One)
        b == Basis(w, h, hasAlpha)
        n == ACCounts(b, hasAlpha)
        lpqa == Premultiply(rgba, count)
    IN [ok |-> AssembleInBounds(w, h, b, n, hasAlpha),
        rgba |-> lpqa,
        hash |-> [len |-> HashLen(TotalAC(n), hasAlpha),
                  hdrHigh |-> Shr(Header(ZeroQuant, hasAlpha, w > h, b.lx, b.ly), 23),
                  dct |-> SubSeq(lpqa, 1, count * 4)]]

\* ------------------------------------------------------------------------
\* State
\* ------------------------------------------------------------------------
VARIABLES
    dm,     \* one assembleHash + decode of its output, followed by proxy size
    dec,    \* one thumbHashToRGBA call on an arbitrary byte string
    imgs,   \* the images callers of Encode pass
    pool,   \* wbPool: the work buffers currently in the pool
    bufs,   \* the allocated work buffers, by identity
    gs      \* the goroutines calling Encode, or one Pipeline.Run

vars == <<dm, dec, imgs, pool, bufs, gs>>

Idle == [stage |-> "off"]

NoEncode == imgs = {} /\ pool = {} /\ bufs = <<>> /\ gs = <<>>

\* ------------------------------------------------------------------------
\* Size sweep: thumbDims, basis selection, packing, and the decoder's parse
\* of the packed bytes, for every source size and both values of hasAlpha
\* ------------------------------------------------------------------------
MaxSide == 100
BigSides == {256, 900, 4000}
SrcSides == (1..MaxSide) \cup BigSides

\* Quantized DC / scale integers handed to the packer (samples inside the
\* ranges the header comment gives), and the AC nibble at stream position k.
QuantSamples ==
    {[lDC |-> 63, pDC |-> 47, qDC |-> 62, lScale |-> 0, pScale |-> 0, qScale |-> 0,
      aDC |-> 15, aScale |-> 0],
     [lDC |-> 31, pDC |-> 62, qDC |-> 0, lScale |-> 31, pScale |-> 63, qScale |-> 63,
      aDC |-> 7, aScale |-> 15]}

SampleNibble(k) == 1 + (k % 15)

DimsInit ==
    /\ dm \in [stage : {"src"}, srcW : SrcSides, srcH : SrcSides, hasAlpha : BOOLEAN]
    /\ dec = Idle
    /\ NoEncode

\* assembleHash on a proxy of thumbDims(srcW, srcH) whose content gave hasAlpha
DimsAssemble ==
    /\ dm.stage = "src"
    /\ \E q \in QuantSamples :
         LET d == thumbDims(dm.srcW, dm.srcH)
             w == d[1]
             h == d[2]
             b == Basis(w, h, dm.hasAlpha)
             n == ACCounts(b, dm.hasAlpha)
             nibs == [k \in 1..TotalAC(n) |-> SampleNibble(k)]
         IN dm' = [stage |-> "hash", srcW |-> dm.srcW, srcH |-> dm.srcH,
                   hasAlpha |-> dm.hasAlpha, w |-> w, h |-> h, q |-> q,
                   basis |-> b, counts |-> n, nibs |-> nibs,
                   hash |-> PackHash(q, dm.hasAlpha, w > h, b.lx, b.ly, nibs)]
    /\ UNCHANGED <<dec, imgs, pool, bufs, gs>>

\* the decoder reads the bytes assembleHash produced
DimsDecode ==
    /\ dm.stage = "hash"
    /\ dm' = [dm EXCEPT !.stage = "decoded"] @@ [out |-> thumbHashToRGBA(dm.hash, TRUE)]
    /\ UNCHANGED <<dec, imgs, pool, bufs, gs>>

DimsNext == DimsAssemble \/ DimsDecode

SpecDims == DimsInit /\ [][DimsNext]_vars

\* ------------------------------------------------------------------------
\* Decoder on arbitrary input: every byte string of up to MaxHashLen bytes
\* over ByteVals, optionally followed by a run of one byte value
\* ------------------------------------------------------------------------
MaxHashLen == 8
ByteVals == {0, 135, 255}
TailLens == {0, 30}
Filler(t) == [i \in 1..t |-> 90]

Prefixes == UNION {[1..k -> ByteVals] : k \in 0..MaxHashLen}

DecInit ==
    /\ dm = Idle
    /\ NoEncode
    /\ \E p \in Prefixes, t \in TailLens, dev \in BOOLEAN :
         dec = [stage |-> "in", dev |-> dev, hash |-> p \o Filler(t)]

Decode ==
    /\ dec.stage = "in"
    /\ dec' = [dec EXCEPT !.stage = "out"] @@ [out |-> thumbHashToRGBA(dec.hash, dec.dev)]
    /\ UNCHANGED <<dm, imgs, pool, bufs, gs>>

DecNext == Decode

SpecDecode == DecInit /\ [][DecNext]_vars

\* ------------------------------------------------------------------------
\* Decoder on every header: any hasAlpha, any isLandscape, any 4-bit dimFlag,
\* with the AC stream the header calls for or with none at all
\* ------------------------------------------------------------------------
DimFlags == 0..15

\* the hash bytes whose header carries the given flags
HeaderHash(q, hasAlpha, isLandscape, dimFlag, full) ==
    LET hd == ParseHeader(PackHash(q, hasAlpha, isLandscape, dimFlag, dimFlag, <<>>))
        n == IF full THEN TotalAC(DecCounts(hd)) ELSE 0
    IN PackHash(q, hasAlpha, isLandscape, dimFlag, dimFlag,
                [k \in 1..n |-> SampleNibble(k)])

\* what the cosine sums come to in the two bands of rows, for two builds
TexA == [l |-> F64Lit(1, 2), p |-> F64Lit(1, 4), q |-> F64Neg(F64Lit(1, 4)),
         a |-> F64Lit(1, 2)]
TexB == [l |-> F64Lit(6, 5), p |-> F64Neg(F64Lit(3, 10)), q |-> F64Lit(2, 5),
         a |-> F64Lit(11, 10)]
TexC == [l |-> F64Neg(F64Lit(1, 10)), p |-> F64Lit(9, 10), q |-> F64Lit(1, 10),
         a |-> F64Neg(F64Lit(1, 10))]
Textures == {<<TexA, TexB>>, <<TexB, TexC>>}

HdrInit ==
    /\ dm = Idle
    /\ NoEncode
    /\ \E q \in QuantSamples, hasAlpha \in BOOLEAN, isLandscape \in BOOLEAN,
          dimFlag \in DimFlags, full \in BOOLEAN, tex \in Textures :
         dec = [stage |-> "in", dev |-> TRUE, tex |-> tex,
                hash |-> HeaderHash(q, hasAlpha, isLandscape, dimFlag, full)]

\* thumbHashToRGBA(hash): the parse and the pixel loop
HdrDecode ==
    /\ dec.stage = "in"
    /\ dec' = [dec EXCEPT !.stage = "out"]
                @@ [out |-> thumbHashToRGBA(dec.hash, dec.dev),
                    img |-> toRGBA(dec.hash, NoChroma, dec.tex)]
    /\ UNCHANGED <<dm, imgs, pool, bufs, gs>>

HdrNext == HdrDecode

SpecHdr == HdrInit /\ [][HdrNext]_vars

\* FIXTURES['portrait']: a photo, no alpha, decoded to 23 x 32
PortraitHash ==
    <<44, 8, 6, 5, 66, 0, 246, 138, 109, 156, 247, 89, 119, 157, 99, 135,
      72, 135, 135, 104, 169, 135, 153, 161, 248, 9, 149, 119>>

\* FIXTURES['logo-transparent']: a logo with alpha, decoded to 32 x 13
LogoHash ==
    <<201, 7, 134, 18, 67, 0, 4, 0, 151, 79, 199, 124, 58, 16, 48, 251,
      129, 238, 182>>

\* ------------------------------------------------------------------------
\* Placeholder calls: thumbHashToRGBA(hash, chroma) and
\* thumbHashToDataURL(hash, chroma, avgColor) on fixtures of the test suite
\* ------------------------------------------------------------------------
PlaceHashes == {S1Hash, PortraitHash, LogoHash}

Chromas ==
    {NoChroma, ChromaNaN, ChromaOf(F64Zero), ChromaOf(F64Lit(15, 100)),
     ChromaOf(F64Lit(1, 2)), ChromaOf(F64Of(1)), ChromaOf(F64Of(2)),
     ChromaOf(F64Neg(F64Lit(1, 2)))}

\* avgColor arrays of the manifest: none, too short, the raw mean of S1 and
\* colours at distance 19, 20, 20, 45 and more from it, and one with a
\* fourth entry
Targets ==
    {<<>>, <<128, 100>>, <<255, 1, 0>>, <<236, 1, 0>>, <<235, 1, 0>>,
     <<255, 13, 16>>, <<255, 28, 36>>, <<128, 100, 80>>, <<185, 176, 170>>,
     <<39, 34, 38, 255>>}

\* the array as numbers
AvgColorOf(target) == [i \in 1..Len(target) |-> F64Of(target[i])]

PlaceInit ==
    /\ dm = Idle
    /\ NoEncode
    /\ \E hash \in PlaceHashes, chroma \in Chromas, target \in Targets,
          tex \in Textures :
         dec = [stage |-> "in", hash |-> hash, chroma |-> chroma,
                target |-> target, tex |-> tex]

CallRGBA ==
    /\ dec.stage = "in"
    /\ dec' = [dec EXCEPT !.stage = "rgba"]
                @@ [img |-> toRGBA(dec.hash, dec.chroma, dec.tex)]
    /\ UNCHANGED <<dm, imgs, pool, bufs, gs>>

CallDataURL ==
    /\ dec.stage = "in"
    /\ dec' = [dec EXCEPT !.stage = "url"]
                @@ [img |-> thumbHashToDataURL(dec.hash, dec.chroma,
                                               AvgColorOf(dec.target), dec.tex)]
    /\ UNCHANGED <<dm, imgs, pool, bufs, gs>>

PlaceNext == CallRGBA \/ CallDataURL

SpecPlace == PlaceInit /\ [][PlaceNext]_vars

\* ------------------------------------------------------------------------
\* selectVariant (variant-select) : format priority and width choice
\* ------------------------------------------------------------------------

\* Math.ceil of a binary64 number
F64Ceil(x) ==
    IF F64IsZero(x) THEN 0
    ELSE IF x.e >= 0 THEN (IF x.s = 0 THEN 1 ELSE -1) * BigToInt(BigShl(x.m, x.e))
    ELSE IF x.e < -55 THEN (IF x.s = 0 THEN 1 ELSE 0)
    ELSE LET fl == BigToInt(BigShr(x.m, -x.e))
             frac == BigLowBits(x.m, -x.e)
         IN  IF x.s = 0 THEN (IF frac THEN fl + 1 ELSE fl) ELSE -fl

FORMAT_PRIORITY(fmt) ==
    CASE fmt = "avif" -> 0
      [] fmt = "webp" -> 1
      [] fmt = "jpeg" -> 2
      [] fmt = "png" -> 3
      [] OTHER -> 99

\* Array.prototype.sort is stable: x goes behind every entry that does not
\* compare greater
RECURSIVE InsertByPriority(_, _)
InsertByPriority(sorted, x) ==
    IF sorted = <<>> THEN <<x>>
    ELSE IF FORMAT_PRIORITY(Head(sorted)) - FORMAT_PRIORITY(x) > 0
         THEN <<x>> \o sorted
         ELSE <<Head(sorted)>> \o InsertByPriority(Tail(sorted), x)

RECURSIVE SortByPriority(_)
SortByPriority(all) ==
    IF all = <<>> THEN <<>>
    ELSE InsertByPriority(SortByPriority(SubSeq(all, 1, Len(all) - 1)),
                          all[Len(all)])

RECURSIVE InsertByWidth(_, _)
InsertByWidth(sorted, v) ==
    IF sorted = <<>> THEN <<v>>
    ELSE IF Head(sorted).width - v.width > 0
         THEN <<v>> \o sorted
         ELSE <<Head(sorted)>> \o InsertByWidth(Tail(sorted), v)

RECURSIVE SortByWidth(_)
SortByWidth(cands) ==
    IF cands = <<>> THEN <<>>
    ELSE InsertByWidth(SortByWidth(SubSeq(cands, 1, Len(cands) - 1)),
                       cands[Len(cands)])

\* formats is the list of Object.entries(formats): <<fmt, supported>>
RECURSIVE SupportedOf(_)
SupportedOf(entries) ==
    IF entries = <<>> THEN <<>>
    ELSE (IF Head(entries)[2] THEN <<Head(entries)[1]>> ELSE <<>>)
         \o SupportedOf(Tail(entries))

getFormatOrder(formats) == SortByPriority(SupportedOf(formats))

\* variants.filter((v) => v.format === format) : a new array
RECURSIVE FilterFormat(_, _)
FilterFormat(variants, format) ==
    IF variants = <<>> THEN <<>>
    ELSE (IF Head(variants).format = format THEN <<Head(variants)>> ELSE <<>>)
         \o FilterFormat(Tail(variants), format)

\* candidates.find((v) => v.width >= requiredWidth), else the last one
RECURSIVE FindWide(_, _)
FindWide(candidates, requiredWidth) ==
    IF Len(candidates) = 1 \/ Head(candidates).width >= requiredWidth
    THEN Head(candidates)
    ELSE FindWide(Tail(candidates), requiredWidth)

NoSelection == [null |-> TRUE]

RECURSIVE TryFormats(_, _, _)
TryFormats(formatOrder, variants, requiredWidth) ==
    IF formatOrder = <<>>
    THEN [null |-> FALSE, variant |-> variants[1],
          format |-> variants[1].format, requestedWidth |-> requiredWidth]
    ELSE LET format == Head(formatOrder)
             candidates == SortByWidth(FilterFormat(variants, format))
         IN  IF candidates = <<>>
             THEN TryFormats(Tail(formatOrder), variants, requiredWidth)
             ELSE [null |-> FALSE,
                   variant |-> FindWide(candidates, requiredWidth),
                   format |-> format, requestedWidth |-> requiredWidth]

\* the result with the caller's list as the call leaves it
selectVariantFirstFit(variants, containerWidth, dpr, formats) ==
    IF Len(variants) = 0 THEN [res |-> NoSelection, variants |-> variants]
    ELSE LET requiredWidth == F64Ceil(F64Mul(F64FromInt(containerWidth), dpr))
             order == getFormatOrder(formats)
             hit == SelectSeq(variants, LAMBDA v :
                       \E i \in 1..Len(order) : order[i] = v.format)
         IN  [res |-> TryFormats(IF hit = <<>> THEN <<>> ELSE <<hit[1].format>>,
                                 variants, requiredWidth),
              variants |-> variants]

selectVariant(variants, containerWidth, dpr, formats) ==
    IF Len(variants) = 0 THEN [res |-> NoSelection, variants |-> variants]
    ELSE LET requiredWidth == F64Ceil(F64Mul(F64FromInt(containerWidth), dpr))
         IN  [res |-> TryFormats(getFormatOrder(formats), variants,
                                 requiredWidth),
              variants |-> variants]

MaxVariants == 3

VariantFormats == {"avif", "webp", "jpeg"}
VariantWidths == {110, 111, 320}
Variant == [format : VariantFormats, width : VariantWidths]

VariantLists ==
    UNION {[1..n -> Variant] : n \in 0..MaxVariants}

\* FormatSupport objects: the four keys of detectFormats in every
\* combination, a partial object and one with an unlisted key
Supports ==
    {<<<<"avif", a>>, <<"webp", w>>, <<"jpeg", j>>, <<"png", p>>>> :
        a \in BOOLEAN, w \in BOOLEAN, j \in BOOLEAN, p \in BOOLEAN}
    \cup {<<<<"avif", TRUE>>, <<"webp", TRUE>>>>,
          <<<<"gif", TRUE>>, <<"jpeg", TRUE>>, <<"webp", TRUE>>>>}

\* containerWidth and devicePixelRatio
Sizes ==
    {<<100, F64Lit(11, 10)>>, <<110, F64FromInt(1)>>, <<74, F64Lit(3, 2)>>,
     <<160, F64FromInt(2)>>, <<400, F64FromInt(1)>>}

SelInit ==
    /\ dm = Idle
    /\ NoEncode
    /\ \E variants \in VariantLists, size \in Sizes, formats \in Supports :
         dec = [stage |-> "in", variants |-> variants,
                containerWidth |-> size[1], dpr |-> size[2],
                formats |-> formats]

CallSelect ==
    /\ dec.stage = "in"
    /\ LET r == selectVariant(dec.variants, dec.containerWidth, dec.dpr,
                              dec.formats)
       IN  dec' = [dec EXCEPT !.stage = "selected"]
                    @@ [res |-> r.res, after |-> r.variants]
    /\ UNCHANGED <<dm, imgs, pool, bufs, gs>>

SelNext == CallSelect

SpecSel == SelInit /\ [][SelNext]_vars

\* ------------------------------------------------------------------------
\* Pipeline.Run : one goroutine per source, a semaphore channel of
\* cfg.Workers tokens, a WaitGroup, and one result slot per source
\* ------------------------------------------------------------------------
MaxSources == 4

\* the --workers flag (0 = NumCPU) and what runtime.NumCPU() may report
WorkerFlags == -1..3
NumCPUs == {1, 2}

\* New: cfg.Workers <= 0 becomes runtime.NumCPU()
NewWorkers(flag, numCPU) == IF flag <= 0 THEN numCPU ELSE flag

\* a send on a buffered channel proceeds while the buffer is not full
CanSendAlways(len, cap) == TRUE

CanSend(len, cap) == len < cap

NotStarted == [pc |-> "none", idx |-> 0]
EmptySlot == [writes |-> 0, by |-> {}]

RunInit ==
    /\ dm = Idle
    /\ dec = Idle
    /\ imgs = {}
    /\ pool = {}
    /\ bufs = <<>>
    /\ \E flag \in WorkerFlags, numCPU \in NumCPUs, n \in 0..MaxSources :
         gs = [main |-> "scan", workers |-> NewWorkers(flag, numCPU),
               n |-> n, i |-> 1, wg |-> 0, sem |-> 0,
               go |-> [k \in 1..n |-> NotStarted],
               results |-> <<>>, collected |-> <<>>]

RunRest == UNCHANGED <<dm, dec, imgs, pool, bufs>>

\* len(sources) == 0: Run returns an error before any goroutine exists
RunNoImages ==
    /\ gs.main = "scan" /\ gs.n = 0
    /\ gs' = [gs EXCEPT !.main = "failed"]
    /\ RunRest

\* results := make([]processResult, len(sources)); sem := make(chan, Workers)
RunMake ==
    /\ gs.main = "scan" /\ gs.n > 0
    /\ gs' = [gs EXCEPT !.main = "loop",
                        !.results = [k \in 1..gs.n |-> EmptySlot]]
    /\ RunRest

\* one turn of the for loop: wg.Add(1); go func(idx, s) {...}(i, src)
RunSpawn ==
    /\ gs.main = "loop" /\ gs.i <= gs.n
    /\ gs' = [gs EXCEPT !.wg = @ + 1,
                        !.go[gs.i] = [pc |-> "start", idx |-> gs.i],
                        !.i = @ + 1]
    /\ RunRest

\* the loop is over: main reaches wg.Wait()
RunLoopEnd ==
    /\ gs.main = "loop" /\ gs.i > gs.n
    /\ gs' = [gs EXCEPT !.main = "wait"]
    /\ RunRest

\* sem <- struct{}{}
Acquire(g) ==
    /\ gs.go[g].pc = "start"
    /\ CanSend(gs.sem, gs.workers)
    /\ gs' = [gs EXCEPT !.sem = @ + 1, !.go[g].pc = "processing"]
    /\ RunRest

\* results[idx] = processImage(s, p.cfg, p.registry)
Process(g) ==
    /\ gs.go[g].pc = "processing"
    /\ LET idx == gs.go[g].idx
       IN  gs' = [gs EXCEPT !.results[idx] =
                               [writes |-> @.writes + 1, by |-> @.by \cup {g}],
                            !.go[g].pc = "stored"]
    /\ RunRest

\* deferred, last in first out: <-sem
Release(g) ==
    /\ gs.go[g].pc = "stored"
    /\ gs' = [gs EXCEPT !.sem = @ - 1, !.go[g].pc = "released"]
    /\ RunRest

\* deferred: wg.Done()
Done(g) ==
    /\ gs.go[g].pc = "released"
    /\ gs' = [gs EXCEPT !.wg = @ - 1, !.go[g].pc = "done"]
    /\ RunRest

\* wg.Wait() returns when the counter is zero
RunWait ==
    /\ gs.main = "wait" /\ gs.wg = 0
    /\ gs' = [gs EXCEPT !.main = "collect"]
    /\ RunRest

\* for _, r := range results
RunCollect ==
    /\ gs.main = "collect"
    /\ gs' = [gs EXCEPT !.main = "done", !.collected = gs.results]
    /\ RunRest

RunNext ==
    \/ RunNoImages
    \/ RunMake
    \/ RunSpawn
    \/ RunLoopEnd
    \/ \E g \in 1..MaxSources : g <= gs.n /\ Acquire(g)
    \/ \E g \in 1..MaxSources : g <= gs.n /\ Process(g)
    \/ \E g \in 1..MaxSources : g <= gs.n /\ Release(g)
    \/ \E g \in 1..MaxSources : g <= gs.n /\ Done(g)
    \/ RunWait
    \/ RunCollect

SpecRun == RunInit /\ [][RunNext]_vars

\* ------------------------------------------------------------------------
\* Encode, called from several goroutines that share wbPool
\* ------------------------------------------------------------------------
NumProcs == 2
MaxCalls == 2

Procs == 1..NumProcs
BufIds == 1..NumProcs

NilHash == [len |-> 0, hdrHigh |-> 0, dct |-> <<>>]

Image(layout, W, H, kind) == [layout |-> layout, W |-> W, H |-> H, kind |-> kind]

NoImage == Image("NRGBA", 0, 0, "red")

\* goroutine g before its first call
Fresh ==
    [pc |-> "idle", img |-> NoImage, wb |-> 0, dstW |-> 0, dstH |-> 0,
     hash |-> NilHash, ret |-> NilHash, calls |-> 0, gets |-> 0, puts |-> 0]

Rgba(g) == bufs[gs[g].wb].rgba

\* A guard that lets through an image with one dimension of 0.
IsEmptyBoth(srcW, srcH) == srcW <= 0 /\ srcH <= 0

\* Encode line 62: srcW <= 0 || srcH <= 0
IsEmpty(srcW, srcH) == srcW <= 0 \/ srcH <= 0

\* Encode lines 60-66: the empty-image guard and thumbDims
Call(g) ==
    /\ gs[g].pc = "idle"
    /\ gs[g].calls < MaxCalls
    /\ \E img \in imgs :
         LET d == thumbDims(img.W, img.H)
             empty == IsEmpty(img.W, img.H)
         IN gs' = [gs EXCEPT ![g] =
                     [pc |-> IF empty THEN "done" ELSE "get",
                      img |-> img, wb |-> 0,
                      dstW |-> IF empty THEN 0 ELSE d[1],
                      dstH |-> IF empty THEN 0 ELSE d[2],
                      hash |-> NilHash, ret |-> NilHash,
                      calls |-> @.calls + 1, gets |-> 0, puts |-> 0]]
    /\ UNCHANGED <<dm, dec, imgs, pool, bufs>>

\* A Get that hands out a pooled buffer and leaves it in the pool.
PoolPeek(g, b) ==
    /\ pool' = pool
    /\ bufs' = bufs
    /\ gs' = [gs EXCEPT ![g].wb = b, ![g].gets = @ + 1, ![g].pc = "zero"]

\* sync.Pool.Get: an element of the pool, removed from it
PoolTake(g, b) ==
    /\ pool' = pool \ {b}
    /\ bufs' = bufs
    /\ gs' = [gs EXCEPT ![g].wb = b, ![g].gets = @ + 1, ![g].pc = "zero"]

\* sync.Pool.Get when it finds nothing (or ignores what is there): New
PoolNew(g, b) ==
    /\ pool' = pool
    /\ bufs' = bufs @@ (b :> NewWorkBuf)
    /\ gs' = [gs EXCEPT ![g].wb = b, ![g].gets = @ + 1, ![g].pc = "zero"]

\* Encode line 68
Get(g) ==
    /\ gs[g].pc = "get"
    /\ \/ \E b \in pool : PoolTake(g, b)
       \/ \E b \in BufIds \ DOMAIN bufs :
            /\ \A c \in BufIds \ DOMAIN bufs : b <= c
            /\ PoolNew(g, b)
    /\ UNCHANGED <<dm, dec, imgs>>

\* Encode lines 69-70
Zero(g) ==
    /\ gs[g].pc = "zero"
    /\ LET n == gs[g].dstW * gs[g].dstH * 4
       IN IF n > RgbaCap
          THEN /\ gs' = [gs EXCEPT ![g].pc = "panic"]
               /\ bufs' = bufs
          ELSE /\ bufs' = [bufs EXCEPT ![gs[g].wb].rgba = zeroF32(@, n)]
               /\ gs' = [gs EXCEPT ![g].pc = "fill"]
    /\ UNCHANGED <<dm, dec, imgs, pool>>

\* Encode lines 72-76
Fill(g) ==
    /\ gs[g].pc = "fill"
    /\ IF SpansInBounds(gs[g].img, gs[g].dstW, gs[g].dstH)
       THEN /\ bufs' = [bufs EXCEPT ![gs[g].wb].rgba =
                          BuildProxy(gs[g].img, gs[g].dstW, gs[g].dstH, @)]
            /\ gs' = [gs EXCEPT ![g].pc = "assemble"]
       ELSE /\ gs' = [gs EXCEPT ![g].pc = "panic"]
            /\ bufs' = bufs
    /\ UNCHANGED <<dm, dec, imgs, pool>>

\* Encode line 78
Assemble(g) ==
    /\ gs[g].pc = "assemble"
    /\ LET r == assembleHash(gs[g].dstW, gs[g].dstH, Rgba(g))
       IN IF r.ok
          THEN /\ bufs' = [bufs EXCEPT ![gs[g].wb].rgba = r.rgba]
               /\ gs' = [gs EXCEPT ![g].hash = r.hash, ![g].pc = "put"]
          ELSE /\ gs' = [gs EXCEPT ![g].pc = "panic"]
               /\ bufs' = bufs
    /\ UNCHANGED <<dm, dec, imgs, pool>>

\* An Encode that returns without putting its buffer back.
PutLeak(g) ==
    /\ gs[g].pc = "put"
    /\ pool' = pool
    /\ gs' = [gs EXCEPT ![g].wb = 0, ![g].pc = "ret"]
    /\ UNCHANGED <<dm, dec, imgs, bufs>>

\* Encode line 79
Put(g) ==
    /\ gs[g].pc = "put"
    /\ pool' = pool \cup {gs[g].wb}
    /\ gs' = [gs EXCEPT ![g].wb = 0, ![g].puts = @ + 1, ![g].pc = "ret"]
    /\ UNCHANGED <<dm, dec, imgs, bufs>>

\* Encode line 80 (and line 63 for the empty image)
Return(g) ==
    /\ gs[g].pc \in {"ret", "done"}
    /\ gs' = [gs EXCEPT ![g].ret = gs[g].hash, ![g].pc = "idle"]
    /\ UNCHANGED <<dm, dec, imgs, pool, bufs>>

\* The garbage collector may drop any pooled buffer; the buffer's memory goes
\* with it unless a goroutine still refers to it.
PoolGC ==
    /\ \E b \in pool :
         LET freed == {b} \ {gs[g].wb : g \in DOMAIN gs}
         IN /\ pool' = pool \ {b}
            /\ bufs' = [c \in DOMAIN bufs \ freed |-> bufs[c]]
    /\ UNCHANGED <<dm, dec, imgs, gs>>

EncodeNext ==
    \/ \E g \in DOMAIN gs : Call(g)
    \/ \E g \in DOMAIN gs : Get(g)
    \/ \E g \in DOMAIN gs : Zero(g)
    \/ \E g \in DOMAIN gs : Fill(g)
    \/ \E g \in DOMAIN gs : Assemble(g)
    \/ \E g \in DOMAIN gs : Put(g)
    \/ \E g \in DOMAIN gs : Return(g)
    \/ PoolGC

\* Concurrent callers on small images of both layouts.
SmallImages ==
    {Image("NRGBA", 2, 1, "grad"), Image("RGBA", 2, 1, "hole"),
     Image("NRGBA", 1, 2, "veil"), Image("RGBA", 1, 1, "red"),
     Image("NRGBA", 0, 1, "red")}

Init ==
    /\ dm = Idle
    /\ dec = Idle
    /\ imgs = SmallImages
    /\ pool = {}
    /\ bufs = <<>>
    /\ gs = [g \in Procs |-> Fresh]

Spec == Init /\ [][EncodeNext]_vars

\* One caller, a warm pool, and images that take the downsample path.
SeqImages ==
    {Image("NRGBA", 900, 3, "red"), Image("RGBA", 900, 3, "red"),
     Image("NRGBA", 900, 3, "veil"),
     Image("NRGBA", 101, 1, "grad"),
     Image("RGBA", 1, 256, "hole"),
     Image("NRGBA", 4000, 1, "red"), Image("RGBA", 1, 4000, "red"),
     Image("NRGBA", 3, 3, "grad"), Image("RGBA", 1, 1, "hole"),
     Image("NRGBA", 0, 0, "red"), Image("RGBA", 0, 7, "red"),
     Image("NRGBA", 7, 0, "red")}

SeqInit ==
    /\ dm = Idle
    /\ dec = Idle
    /\ imgs = SeqImages
    /\ pool = {}
    /\ bufs = <<>>
    /\ gs = [g \in {1} |-> Fresh]

SpecSeq == SeqInit /\ [][EncodeNext]_vars

\* ------------------------------------------------------------------------
\* One Encode on a leased work buffer, cell by cell: which cells of rgba,
\* cosX, cosY and ac the call stores, and which it loads before it has
\* stored them
\* ------------------------------------------------------------------------

\* A lease is [fresh, def, stale]: fresh when the buffer comes from New (all
\* cells are the zeros of new(workBuf)); def[r] the cells of region r stored
\* since Get; stale[r] the cells of r loaded while they still held what an
\* earlier call left.
Regions == {"rgba", "cosX", "cosY", "ac"}

Leased(fresh) ==
    [fresh |-> fresh, def |-> [r \in Regions |-> {}],
     stale |-> [r \in Regions |-> {}]]

Store(st, r, cells) == [st EXCEPT !.def[r] = @ \cup cells]

Load(st, r, cells) ==
    IF st.fresh THEN st
    ELSE [st EXCEPT !.stale[r] = @ \cup (cells \ st.def[r])]

\* an Encode that does not clear the proxy region
zeroF32Skipped(n) == {}

\* zeroF32(wb.rgba[:n]): the cells it stores
zeroF32Cells(n) == 0..(n - 1)

\* the alpha sum (or alpha byte) that decides whether the three colour cells
\* of proxy cell (dx, dy) are stored
AlphaOf(img, dstW, dstH, dx, dy) ==
    IF img.layout = "NRGBA" THEN 1
    ELSE IF img.W <= dstW /\ img.H <= dstH THEN Pix(img, dx, dy)[4]
    ELSE SpanSum(img, 4, srcSpan(dx, dstW, img.W), srcSpan(dy, dstH, img.H))

\* extractPixels / areaDownscale: the cells of rgba[:n] they store
ProxyStores(img, dstW, dstH) ==
    {c * 4 + 3 : c \in 0..(dstW * dstH - 1)}
    \cup UNION {{c * 4, c * 4 + 1, c * 4 + 2} :
                  c \in {k \in 0..(dstW * dstH - 1) :
                            AlphaOf(img, dstW, dstH, k % dstW, k \div dstW) > 0}}

\* assembleHash, first loop: a, r, g, b of every proxy cell
AverageLoads(st, count) == Load(st, "rgba", 0..(count * 4 - 1))

\* data[rowOff + x*stride + chanOff] over the proxy
ChanCells(count, chanOff) == {c * 4 + chanOff : c \in 0..(count - 1)}

\* encodeChan: loads of the channel and of both tables, stores to dst, and
\* the loads of dst[:idx] by the normalisation
encodeChan(st, chanOff, w, h, nx, ny, from) ==
    LET s1 == Load(st, "rgba", ChanCells(w * h, chanOff))
        s2 == Load(s1, "cosX", 0..(nx * w - 1))
        s3 == Load(s2, "cosY", 0..(ny * h - 1))
        dst == from..(from + nx * ny - 2)
    IN  Load(Store(s3, "ac", dst), "ac", dst)

\* assembleHash from the RGBA -> LPQA loop to packAC
AssembleCells(st, w, h, hasAlpha) ==
    LET count == w * h
        b == Basis(w, h, hasAlpha)
        n == ACCounts(b, hasAlpha)
        colour == ChanCells(count, 0) \cup ChanCells(count, 1)
                    \cup ChanCells(count, 2)
        s1 == Store(Load(st, "rgba", 0..(count * 4 - 1)), "rgba", colour)
        maxNx == imax(imax(b.lx, b.px), b.ax)
        maxNy == imax(imax(b.ly, b.py), b.ay)
        s2 == Store(s1, "cosX", 0..(maxNx * w - 1))
        s3 == Store(s2, "cosY", 0..(maxNy * h - 1))
        s4 == encodeChan(s3, 0, w, h, b.lx, b.ly, 0)
        s5 == encodeChan(s4, 1, w, h, b.px, b.py, n.lN)
        s6 == encodeChan(s5, 2, w, h, b.px, b.py, n.lN + n.pN)
        s7 == IF hasAlpha
              THEN encodeChan(s6, 3, w, h, b.ax, b.ay, n.lN + n.pN + n.qN)
              ELSE s6
    IN  Load(s7, "ac", 0..(TotalAC(n) - 1))

\* avgA < 1.  The sum is over loaded cells: when one of them still holds
\* what an earlier call left, either outcome is possible.
HasAlphaOutcomes(st, img, w, h) ==
    IF st.stale["rgba"] # {} THEN BOOLEAN
    ELSE {F32Less(AvgAlpha(BuildProxy(img, w, h, zeroF32(<<>>, w * h * 4)),
                           w * h), F32One)}

LeaseImages ==
    {Image("NRGBA", 2, 1, "grad"), Image("RGBA", 2, 1, "hole"),
     Image("NRGBA", 1, 2, "veil"), Image("RGBA", 1, 1, "red"),
     Image("RGBA", 1, 1, "hole"), Image("RGBA", 3, 3, "hole"),
     Image("RGBA", 3, 2, "veil"), Image("NRGBA", 3, 3, "hole"),
     Image("NRGBA", 900, 3, "red"), Image("RGBA", 900, 3, "red"),
     Image("RGBA", 300, 200, "hole"), Image("RGBA", 1, 256, "hole"),
     Image("NRGBA", 101, 1, "grad"), Image("RGBA", 200, 100, "veil")}

LeaseInit ==
    /\ dm = Idle
    /\ dec = Idle
    /\ imgs = LeaseImages
    /\ pool = {}
    /\ bufs = <<>>
    /\ \E img \in LeaseImages :
         gs = [pc |-> "get", img |-> img,
               dstW |-> thumbDims(img.W, img.H)[1],
               dstH |-> thumbDims(img.W, img.H)[2],
               hasAlpha |-> FALSE, wb |-> Leased(TRUE)]

LeaseRest == UNCHANGED <<dm, dec, imgs, pool, bufs>>

\* wbPool.Get(): a buffer an earlier Encode put back, or a new one
LeaseGet ==
    /\ gs.pc = "get"
    /\ \E fresh \in BOOLEAN :
         gs' = [gs EXCEPT !.pc = "zero", !.wb = Leased(fresh)]
    /\ LeaseRest

\* zeroF32(wb.rgba[:n])
LeaseZero ==
    /\ gs.pc = "zero"
    /\ gs' = [gs EXCEPT !.pc = "fill",
                        !.wb = Store(@, "rgba",
                                     zeroF32Cells(gs.dstW * gs.dstH * 4))]
    /\ LeaseRest

\* extractPixels or areaDownscale
LeaseFill ==
    /\ gs.pc = "fill"
    /\ gs' = [gs EXCEPT !.pc = "assemble",
                        !.wb = Store(@, "rgba",
                                     ProxyStores(gs.img, gs.dstW, gs.dstH))]
    /\ LeaseRest

\* assembleHash(dstW, dstH, wb)
LeaseAssemble ==
    /\ gs.pc = "assemble"
    /\ LET avg == AverageLoads(gs.wb, gs.dstW * gs.dstH)
       IN  \E hasAlpha \in HasAlphaOutcomes(avg, gs.img, gs.dstW, gs.dstH) :
             gs' = [gs EXCEPT !.pc = "put", !.hasAlpha = hasAlpha,
                              !.wb = AssembleCells(avg, gs.dstW, gs.dstH,
                                                   hasAlpha)]
    /\ LeaseRest

\* wbPool.Put(wb); return hash
LeasePut ==
    /\ gs.pc = "put"
    /\ gs' = [gs EXCEPT !.pc = "ret"]
    /\ LeaseRest

LeaseNext == LeaseGet \/ LeaseZero \/ LeaseFill \/ LeaseAssemble \/ LeasePut

SpecLease == LeaseInit /\ [][LeaseNext]_vars

\* ------------------------------------------------------------------------
\* Properties
\* ------------------------------------------------------------------------

\* What Encode computes for img when it runs alone on a buffer fresh from New.
ReferenceHash(img) ==
    IF img.W <= 0 \/ img.H <= 0 THEN NilHash
    ELSE LET d == thumbDims(img.W, img.H)
             n == d[1] * d[2] * 4
         IN assembleHash(d[1], d[2],
                         BuildProxy(img, d[1], d[2], zeroF32(<<>>, n))).hash

Returned(g) == gs[g].pc = "idle" /\ gs[g].calls > 0

Holding(g) == gs[g].pc \in {"zero", "fill", "assemble", "put"}

\* C1: whatever the interleaving of the goroutines and whatever the buffer a
\* call got from the pool held, the hash a call returns is the one the image
\* alone determines.
C1_Deterministic ==
    \A g \in DOMAIN gs : Returned(g) => gs[g].ret = ReferenceHash(gs[g].img)

\* Two goroutines have returned the same hash for the same image, each on its
\* second call, so on buffers that went through the pool, and a buffer with
\* stale data of an earlier call is in the pool.
C1_Witness ==
    \E g \in DOMAIN gs, k \in DOMAIN gs :
       /\ g # k
       /\ Returned(g) /\ Returned(k)
       /\ gs[g].calls >= 2 /\ gs[k].calls >= 2
       /\ gs[g].img = gs[k].img
       /\ gs[g].img.W >= 1 /\ gs[g].img.H >= 1
       /\ gs[g].ret = gs[k].ret
       /\ \E b \in pool : Len(bufs[b].rgba) > gs[g].img.W * gs[g].img.H * 4

\* C2: a work buffer has at most one holder; a held buffer is not in the
\* pool; a call holds a buffer exactly from Get to Put, which are the only
\* program points between which it touches one; and it has put its buffer
\* back exactly once when it returns.
C2_Exclusive ==
    /\ \A g \in DOMAIN gs, k \in DOMAIN gs :
          (g # k /\ gs[g].wb # 0) => gs[g].wb # gs[k].wb
    /\ \A g \in DOMAIN gs :
          /\ gs[g].wb # 0 => (gs[g].wb \notin pool /\ gs[g].wb \in DOMAIN bufs)
          /\ Holding(g) <=> gs[g].wb # 0
          /\ Holding(g) => (gs[g].gets = 1 /\ gs[g].puts = 0)
          /\ gs[g].pc = "ret" => (gs[g].gets = 1 /\ gs[g].puts = 1)
          /\ gs[g].pc \in {"get", "done"} => (gs[g].gets = 0 /\ gs[g].puts = 0)
          /\ gs[g].puts <= gs[g].gets

\* Two calls are in flight at once, each on its own buffer, one of which came
\* back out of the pool with another call's data in it.
C2_Witness ==
    \E g \in DOMAIN gs, k \in DOMAIN gs :
       /\ g # k
       /\ gs[g].pc = "fill" /\ gs[k].pc = "assemble"
       /\ gs[g].wb # gs[k].wb
       /\ gs[g].calls >= 2
       /\ Len(Rgba(g)) > gs[g].dstW * gs[g].dstH * 4

CeilHalf(n) == CHOOSE k \in 0..n : 2 * k >= n /\ 2 * k <= n + 1

DimsAcCount ==
    (dm.basis.lx * dm.basis.ly - 1) + 2 * (dm.basis.px * dm.basis.py - 1)
    + (IF dm.hasAlpha THEN dm.basis.ax * dm.basis.ay - 1 ELSE 0)

\* C3 (as stated): every hash of a non-empty image is 20 to 35 bytes long.
C3_Length20To35 ==
    dm.stage = "hash" => (20 <= Len(dm.hash) /\ Len(dm.hash) <= 35)

\* C4: for every proxy size 1..100 x 1..100 the hash is 6 + ceil(acCount/2)
\* bytes long without alpha and 8 + ceil(acCount/2) with alpha, acCount
\* counted from the basis chosen for that proxy size.
C4_HashLength ==
    dm.stage = "hash" =>
       /\ dm.w \in 1..maxThumbDim /\ dm.h \in 1..maxThumbDim
       /\ dm.basis = Basis(dm.w, dm.h, dm.hasAlpha)
       /\ Len(dm.hash) = (IF dm.hasAlpha THEN 8 ELSE 6) + CeilHalf(DimsAcCount)

\* The hash of a downsampled source whose acCount is odd, so that the last
\* byte carries one nibble (with alpha acCount is always even).
C4_Witness ==
    /\ dm.stage = "hash"
    /\ ~dm.hasAlpha
    /\ dm.srcW > maxThumbDim
    /\ DimsAcCount % 2 = 1
    /\ Len(dm.hash) = 6 + (DimsAcCount + 1) \div 2

\* C5 (as stated): the decoder reads for each channel as many coefficients
\* as the encoder packed for it, and none from past the end of the hash.
C5_SameCounts ==
    dm.stage = "decoded" =>
       /\ DecCounts(dm.out.hd) = dm.counts
       /\ dm.out.hd.acOffset + CeilHalf(TotalAC(DecCounts(dm.out.hd))) <= Len(dm.hash)

NonEmpty(img) == img.W >= 1 /\ img.H >= 1

AlphaBit(hash) == And(hash.hdrHigh, 1)

\* C9 (as stated): the hasAlpha bit is 1 for every image with a pixel of
\* alpha below 255 and 0 for every fully opaque image.
C9_AlphaBit ==
    \A g \in DOMAIN gs :
       (Returned(g) /\ NonEmpty(gs[g].img)) =>
          (AlphaBit(gs[g].ret) = 1 <=> HasAlpha(gs[g].img))

\* the same bytes in the other layout (for a fully opaque image the
\* premultiplied and the non-premultiplied bytes coincide)
Twin(img) ==
    [img EXCEPT !.layout = IF img.layout = "NRGBA" THEN "RGBA" ELSE "NRGBA"]

\* C10 (as stated, for the parts of the hash that do not depend on the
\* quantized coefficients): a fully opaque image encodes to a hash of the
\* same length and the same header flags whether it is held as NRGBA or RGBA.
C10_SameAcrossLayouts ==
    \A g \in DOMAIN gs :
       (Returned(g) /\ NonEmpty(gs[g].img) /\ ~HasAlpha(gs[g].img)) =>
          LET t == ReferenceHash(Twin(gs[g].img))
          IN gs[g].ret.len = t.len /\ gs[g].ret.hdrHigh = t.hdrHigh

\* bit 23 of the first four bytes, as far as the input has them
HasAlphaBit(hash) == Len(hash) >= 3 /\ hash[3] >= 128

Short(hash) == Len(hash) < (IF HasAlphaBit(hash) THEN 8 ELSE 6)

ZeroPad(hash, n) ==
    [i \in 1..Longer(Len(hash), n) |-> IF i <= Len(hash) THEN hash[i] ELSE 0]

DeclaredLen(hd) == hd.acOffset + CeilHalf(TotalAC(DecCounts(hd)))

ACTruncated(hash) == DeclaredLen(ParseHeader(hash)) > Len(hash)

\* the nibble at stream position k, 0 where the hash has no byte for it
NibbleOrZero(hash, acOffset, k) ==
    LET bi == acOffset + (k \div 2)
    IN IF bi + 1 > Len(hash) THEN 0
       ELSE IF k % 2 = 0 THEN hash[bi + 1] % 16 ELSE hash[bi + 1] \div 16

NibblesOrZero(hash, acOffset, count, from) ==
    [i \in 1..count |-> NibbleOrZero(hash, acOffset, from + i - 1)]

\* C8 (as stated): decoding a hash whose AC nibble stream ends before all
\* declared coefficients have been read fails with MalformedBasis.
C8_MalformedBasis ==
    (dec.stage = "out" /\ ACTruncated(dec.hash)) =>
       (dec.out.status = "MalformedBasis" /\ dec.out.rgbaLen = 0)

\* C8 (amended): decoding such a hash reports no error.  Every coefficient
\* whose nibble lies beyond the last byte is read as nibble 0, the others as
\* stored, and the bitmap is produced from them.
C8_MissingNibblesReadZero ==
    (dec.stage = "out" /\ ACTruncated(dec.hash)) =>
       LET hd == dec.out.hd
           n == DecCounts(hd)
       IN /\ dec.out.status = "ok"
          /\ dec.out.lAC = NibblesOrZero(dec.hash, hd.acOffset, n.lN, 0)
          /\ dec.out.pAC = NibblesOrZero(dec.hash, hd.acOffset, n.pN, n.lN)
          /\ dec.out.qAC = NibblesOrZero(dec.hash, hd.acOffset, n.qN, n.lN + n.pN)
          /\ dec.out.aAC = NibblesOrZero(dec.hash, hd.acOffset, n.aN, n.lN + n.pN + n.qN)
          /\ dec.out.rgbaLen = dec.out.w * dec.out.h * 4
          /\ dec.out.rgbaLen >= 4

\* An alpha hash with a complete header and part of its AC stream: L is read
\* from stored nibbles, the end of A from beyond the last byte.
C8_Witness ==
    /\ dec.stage = "out"
    /\ ACTruncated(dec.hash)
    /\ dec.out.hd.hasAlpha
    /\ Len(dec.hash) > 8
    /\ Len(dec.out.lAC) >= 1 /\ dec.out.lAC[1] # 0
    /\ Len(dec.out.aAC) >= 1 /\ dec.out.aAC[Len(dec.out.aAC)] = 0
    /\ dec.out.status = "ok"

\* ------------------------------------------------------------------------
\* Proxy size
\* ------------------------------------------------------------------------
SrcLonger == imax(dm.srcW, dm.srcH)
SrcShorter == IF dm.srcW >= dm.srcH THEN dm.srcH ELSE dm.srcW
ProxyLonger == IF dm.srcW >= dm.srcH THEN dm.w ELSE dm.h
ProxyShorter == IF dm.srcW >= dm.srcH THEN dm.h ELSE dm.w

\* C18 (as stated): for every non-empty source size the proxy is the source
\* size when both sides are <= 100; otherwise the longer side is exactly 100
\* and the shorter side is max(1, round(shorter * 100 / longer)), rounded to
\* nearest; in all cases 1 <= dstW, dstH <= 100.
C18_ShorterSideRounded ==
    dm.stage # "src" =>
       /\ dm.w \in 1..maxThumbDim /\ dm.h \in 1..maxThumbDim
       /\ IF SrcLonger <= maxThumbDim
          THEN dm.w = dm.srcW /\ dm.h = dm.srcH
          ELSE /\ ProxyLonger = maxThumbDim
               /\ ProxyShorter =
                    max1((2 * SrcShorter * maxThumbDim + SrcLonger) \div (2 * SrcLonger))

\* C18 (amended): as above, except that the shorter side is
\* max(1, floor(shorter * 100 / longer)): the quotient is truncated, never
\* rounded up.
C18_ShorterSideTruncated ==
    dm.stage # "src" =>
       /\ dm.w \in 1..maxThumbDim /\ dm.h \in 1..maxThumbDim
       /\ IF SrcLonger <= maxThumbDim
          THEN dm.w = dm.srcW /\ dm.h = dm.srcH
          ELSE /\ ProxyLonger = maxThumbDim
               /\ ProxyShorter = max1((SrcShorter * maxThumbDim) \div SrcLonger)

\* A 256 x 99 source has been reduced: 9900 / 256 = 38.67 gives 38, where
\* rounding to nearest gives 39.
C18_Witness ==
    /\ dm.stage = "hash"
    /\ dm.srcW = 256 /\ dm.srcH = 99
    /\ dm.w = maxThumbDim /\ dm.h = 38

\* ------------------------------------------------------------------------
\* Luma basis across the encoder and the decoder
\* ------------------------------------------------------------------------
\* C19: for every proxy size the (lx, ly) the decoder derives from the
\* stored header (lLimit = 5 with alpha, 7 without; lx = lLimit and
\* ly = max(1, dimFlag) when isLandscape, else lx = max(1, dimFlag) and
\* ly = lLimit) equal the (lx, ly) the encoder used for the luma DCT, and the
\* stored dimFlag is always in 1..7.
C19_SameLumaBasis ==
    dm.stage = "decoded" =>
       /\ dm.out.hd.lx = dm.basis.lx
       /\ dm.out.hd.ly = dm.basis.ly
       /\ dm.out.hd.dimFlag \in 1..7
       /\ dm.out.hd.isLandscape = (dm.w > dm.h)
       /\ dm.out.hd.hasAlpha = dm.hasAlpha

\* The hash of a reduced landscape source with alpha, whose luma basis is
\* 5 wide and less than 5 high, has been decoded.
C19_Witness ==
    /\ dm.stage = "decoded"
    /\ dm.srcW > maxThumbDim
    /\ dm.hasAlpha
    /\ dm.basis.lx = 5 /\ dm.basis.ly \in 2..4
    /\ dm.out.hd.ly = dm.basis.ly

\* ------------------------------------------------------------------------
\* Alpha basis of the decoder
\* ------------------------------------------------------------------------
\* C20 (as stated): when the hasAlpha bit is set, the decoder reconstructs
\* the alpha channel with a 5 x 5 basis, reading exactly 24 alpha AC
\* coefficients, whatever lx and ly the header declares.
C20_AlphaAlways5x5 ==
    (dec.stage = "out" /\ dec.out.hd.hasAlpha) => Len(dec.out.aAC) = 5 * 5 - 1

\* C20 (amended): when the hasAlpha bit is set, the decoder reconstructs the
\* alpha channel with the luma basis lx x ly of the header (one of them 5,
\* the other max(1, dimFlag)), reading lx * ly - 1 alpha AC coefficients
\* right after the 8 + 8 chroma ones; that is 24 only when dimFlag = 5.
C20_AlphaUsesLumaBasis ==
    (dec.stage = "out" /\ dec.out.hd.hasAlpha) =>
       /\ Len(dec.out.aAC) = dec.out.hd.lx * dec.out.hd.ly - 1
       /\ Len(dec.out.aAC) = Len(dec.out.lAC)
       /\ dec.out.hd.lx * dec.out.hd.ly =
             5 * imax(1, dec.out.hd.dimFlag)
       /\ (Len(dec.out.aAC) = 5 * 5 - 1) <=> (dec.out.hd.dimFlag = 5)
       /\ \A i \in 1..Len(dec.out.aAC) :
             dec.out.aAC[i] =
                ReadNibble(dec.hash, 8, Len(dec.out.lAC) + 8 + 8 + i - 1)

\* A portrait header with the hasAlpha bit and dimFlag = 3 has been decoded
\* from a hash that carries its whole AC stream: 14 alpha coefficients.
C20_Witness ==
    /\ dec.stage = "out"
    /\ dec.out.hd.hasAlpha /\ ~dec.out.hd.isLandscape
    /\ dec.out.hd.dimFlag = 3
    /\ Len(dec.hash) = 8 + ((14 + 8 + 8 + 14 + 1) \div 2)
    /\ Len(dec.out.aAC) = 14

\* ------------------------------------------------------------------------
\* Output of the decoder
\* ------------------------------------------------------------------------
\* C11: for every header (any hasAlpha, any isLandscape, any 4-bit dimFlag)
\* the decoder's output size satisfies 1 <= w, h <= 32 and max(w, h) = 32,
\* with (w, h) = (32, round(32*ly/lx)) when isLandscape and lx > ly,
\* (round(32*lx/ly), 32) when not isLandscape and ly > lx, and (32, 32)
\* otherwise; the returned buffer has exactly w*h*4 bytes, each in [0, 255].
C11_OutputSize ==
    dec.stage = "out" =>
       LET hd == dec.out.hd
           w == dec.img.w
           h == dec.img.h
       IN /\ w \in 1..32 /\ h \in 1..32 /\ imax(w, h) = 32
          /\ <<w, h>> =
               IF hd.isLandscape /\ hd.lx > hd.ly
               THEN <<32, (64 * hd.ly + hd.lx) \div (2 * hd.lx)>>
               ELSE IF ~hd.isLandscape /\ hd.ly > hd.lx
               THEN <<(64 * hd.lx + hd.ly) \div (2 * hd.ly), 32>>
               ELSE <<32, 32>>
          /\ dec.img.len = w * h * 4
          /\ 4 * (BandCount(w, h, 1) + BandCount(w, h, 2)) = dec.img.len
          /\ \A k \in 1..2 : \A c \in 1..4 : dec.img.rgba[k][c] \in 0..255

\* A landscape header with alpha and dimFlag = 3 has been decoded to 32 x 19
\* pixels, with cosine sums that drive a channel past both ends of the range.
C11_Witness ==
    /\ dec.stage = "out"
    /\ dec.out.hd.isLandscape /\ dec.out.hd.hasAlpha /\ dec.out.hd.dimFlag = 3
    /\ dec.img.w = 32 /\ dec.img.h = 19
    /\ dec.out.hd.lScale # 0
    /\ \E k \in 1..2 : dec.img.rgba[k][1] = 255
    /\ \E k \in 1..2 : dec.img.rgba[k][3] = 0

\* ------------------------------------------------------------------------
\* Chroma attenuation and bias correction
\* ------------------------------------------------------------------------
\* the raw reconstruction of the call's hash
RawImage == toRGBA(dec.hash, NoChroma, dec.tex)

\* C13: simple chroma attenuation with chroma = 0 makes every output pixel
\* exactly gray (R = G = B), chroma >= 1 or an omitted chroma leaves the
\* buffer identical to the raw reconstruction, a negative chroma behaves as
\* chroma = 0, and in every case the dimensions and the alpha channel are
\* unchanged.
C13_SimpleChroma ==
    dec.stage = "rgba" =>
       LET raw == RawImage
           c == dec.chroma
       IN /\ dec.img.w = raw.w /\ dec.img.h = raw.h /\ dec.img.len = raw.len
          /\ \A k \in 1..2 : dec.img.rgba[k][4] = raw.rgba[k][4]
          /\ (c.given /\ ~c.nan /\ F64IsZero(c.v)) =>
                \A k \in 1..2 : /\ dec.img.rgba[k][1] = dec.img.rgba[k][2]
                                /\ dec.img.rgba[k][2] = dec.img.rgba[k][3]
          /\ (~c.given \/ (~c.nan /\ ~F64Less(c.v, F64Of(1)))) =>
                dec.img.rgba = raw.rgba
          /\ (c.given /\ ~c.nan /\ F64Less(c.v, F64Zero)) =>
                dec.img.rgba = toRGBA(dec.hash, ChromaOf(F64Zero), dec.tex).rgba

\* The portrait fixture, whose raw reconstruction is not gray, has been
\* decoded with a negative chroma and came out gray.
C13_Witness ==
    /\ dec.stage = "rgba"
    /\ dec.hash = PortraitHash
    /\ dec.chroma.given /\ ~dec.chroma.nan /\ F64Less(dec.chroma.v, F64Zero)
    /\ \E k \in 1..2 : RawImage.rgba[k][1] # RawImage.rgba[k][2]
    /\ \A k \in 1..2 : dec.img.rgba[k][1] = dec.img.rgba[k][2]

\* h times the gap between the mean of channel c of a buffer and the c-th
\* entry of the call's avgColor, which is an integer; the squared distance
\* of the mean from the target is GapSquares / h^2
RowGap(rgba, h, c) ==
    BandRows(h, 1) * (rgba[1][c] - dec.target[c])
    + BandRows(h, 2) * (rgba[2][c] - dec.target[c])

GapSquares(rgba, h) ==
    RowGap(rgba, h, 1) * RowGap(rgba, h, 1) + RowGap(rgba, h, 2) * RowGap(rgba, h, 2)
    + RowGap(rgba, h, 3) * RowGap(rgba, h, 3)

\* C12: when a target mean colour is supplied, the decoder's result is the
\* raw reconstruction with no attenuation, then attenuation by ac chosen
\* from the raw-mean-to-target distance (0.55 if dist < 20, 0.40 if
\* 20 <= dist < 45, 0.28 if dist >= 45), then adding
\* 0.45 * (target - mean of the attenuated buffer) to every pixel with
\* clamping to [0, 255]; the chroma option has no influence on the result.
C12_AdaptivePipeline ==
    (dec.stage = "url" /\ Len(dec.target) >= 3) =>
       LET raw == RawImage
           h == raw.h
           d2 == GapSquares(raw.rgba, h)
           ac == IF d2 < 20 * 20 * h * h THEN ChromaNear
                 ELSE IF d2 < 45 * 45 * h * h THEN ChromaMid
                 ELSE ChromaFar
           att == attenuateChroma(raw.rgba, ac)
           mean == computeAvgRGB(att, raw.w, h)
           Add(k, c) ==
              Clamp255(F64Round(F64Add(F64Of(att[k][c]),
                 F64Mul(F64Sub(F64Of(dec.target[c]), mean[c]), BiasGain))))
       IN /\ dec.img.w = raw.w /\ dec.img.h = h /\ dec.img.len = raw.len
          /\ \A k \in 1..2 :
                dec.img.rgba[k] = <<Add(k, 1), Add(k, 2), Add(k, 3), raw.rgba[k][4]>>

\* S1 has been decoded with a chroma of 0.15 and a target at distance
\* exactly 20 from its raw mean (255, 1, 0): attenuated by 0.40, not by 0.15
\* and not by 0.55, to (135, 33, 33), then moved to (180, 19, 18).
C12_Witness ==
    /\ dec.stage = "url"
    /\ dec.hash = S1Hash
    /\ dec.target = <<235, 1, 0>>
    /\ dec.chroma = ChromaOf(F64Lit(15, 100))
    /\ attenuateChroma(RawImage.rgba, ChromaMid)[1] = <<135, 33, 33, 255>>
    /\ dec.img.rgba[1] = <<180, 19, 18, 255>>
    /\ dec.img.rgba[1] # toRGBA(dec.hash, dec.chroma, dec.tex).rgba[1]

\* the call's avgColor is the mean of the raw reconstruction of S1
SelfTarget ==
    /\ dec.hash = S1Hash
    /\ Len(dec.target) = 3
    /\ AvgColorOf(dec.target) = computeAvgRGB(RawImage.rgba, RawImage.w, RawImage.h)

\* C14 (as stated): decoding the solid-red S1 hash with the target mean set
\* to the mean of its own raw reconstruction yields a buffer whose mean RGB
\* is within Euclidean distance 1 of that target.
C14_SelfTargetWithinOne ==
    (dec.stage = "url" /\ SelfTarget) =>
       GapSquares(dec.img.rgba, dec.img.h) <= dec.img.h * dec.img.h

\* C14 (amended): decoding S1 with the target mean set to the mean
\* (255, 1, 0) of its own raw reconstruction yields the solid buffer
\* (206, 14, 14, 255): the distance 0 selects ac = 0.55, attenuation gives
\* (165, 25, 25), and the bias step restores 45% of the gap to the target.
\* The mean of the result is at distance sqrt(2766), about 52.6, from the
\* target.
C14_SelfTargetDrifts ==
    (dec.stage = "url" /\ SelfTarget) =>
       /\ dec.target = <<255, 1, 0>>
       /\ attenuateChroma(RawImage.rgba, ChromaNear)
             = <<<<165, 25, 25, 255>>, <<165, 25, 25, 255>>>>
       /\ dec.img.rgba = <<<<206, 14, 14, 255>>, <<206, 14, 14, 255>>>>
       /\ GapSquares(dec.img.rgba, dec.img.h) = 2766 * dec.img.h * dec.img.h

\* S1 has been decoded against its own raw mean.
C14_Witness ==
    /\ dec.stage = "url"
    /\ SelfTarget
    /\ RawImage.rgba = <<<<255, 1, 0, 255>>, <<255, 1, 0, 255>>>>
    /\ dec.img.rgba[1][1] = 206

\* the supported formats that have a variant in the call's list
Usable ==
    {f \in VariantFormats :
        /\ \E i \in 1..Len(dec.formats) :
               dec.formats[i][1] = f /\ dec.formats[i][2]
        /\ \E i \in 1..Len(dec.variants) : dec.variants[i].format = f}

\* avif > webp > jpeg > png
Beats(f, g) ==
    \/ f = "avif" /\ g # "avif"
    \/ f = "webp" /\ g \in {"jpeg", "png"}
    \/ f = "jpeg" /\ g = "png"

WidthsOf(f) ==
    {dec.variants[i].width :
        i \in {j \in 1..Len(dec.variants) : dec.variants[j].format = f}}

Required == F64Ceil(F64Mul(F64FromInt(dec.containerWidth), dec.dpr))

\* the choice among the variants of format f
PicksFrom(f) ==
    /\ dec.res.format = f
    /\ dec.res.variant.format = f
    /\ dec.res.variant.width \in WidthsOf(f)
    /\ dec.res.requestedWidth = Required
    /\ LET wide == {w \in WidthsOf(f) : w >= Required}
       IN  IF wide # {}
           THEN \A w \in wide : dec.res.variant.width <= w
           ELSE \A w \in WidthsOf(f) : dec.res.variant.width >= w

PicksBest ==
    \E f \in Usable : (\A g \in Usable : ~Beats(g, f)) /\ PicksFrom(f)

\* C15 (as stated): selectVariant returns null exactly when the list is
\* empty; otherwise it picks, among the variants of the highest-priority
\* supported format that has a variant, the narrowest one at least
\* ceil(containerWidth * dpr) wide or else the widest, and leaves the
\* caller's list as it was.
C15_AlwaysBestFormat ==
    dec.stage = "selected" =>
        /\ dec.res.null <=> dec.variants = <<>>
        /\ ~dec.res.null => PicksBest
        /\ dec.after = dec.variants

\* C15 (amended): as above when some supported format has a variant; when
\* none has, the result is the first variant of the list under its own
\* format.
C15_BestFormatOrFirst ==
    dec.stage = "selected" =>
        /\ dec.res.null <=> dec.variants = <<>>
        /\ (~dec.res.null /\ Usable # {}) => PicksBest
        /\ (~dec.res.null /\ Usable = {}) =>
               /\ dec.res.variant = dec.variants[1]
               /\ dec.res.format = dec.variants[1].format
               /\ dec.res.requestedWidth = Required
        /\ dec.after = dec.variants

\* C15 witness: avif unsupported, webp chosen over jpeg; Math.ceil(100 * 1.1)
\* is 111, so the 110-wide webp variant is passed over for the 111-wide one
\* that sits first in the caller's list
C15_Witness ==
    /\ dec.stage = "selected"
    /\ dec.containerWidth = 100
    /\ dec.dpr = F64Lit(11, 10)
    /\ dec.variants = <<[format |-> "webp", width |-> 111],
                        [format |-> "jpeg", width |-> 320],
                        [format |-> "webp", width |-> 110]>>
    /\ dec.formats = <<<<"avif", FALSE>>, <<"webp", TRUE>>,
                       <<"jpeg", TRUE>>, <<"png", TRUE>>>>
    /\ dec.res = [null |-> FALSE, format |-> "webp", requestedWidth |-> 111,
                  variant |-> [format |-> "webp", width |-> 111]]
    /\ dec.after = dec.variants

\* the goroutines of the build that are inside processImage
Processing == {g \in 1..gs.n : gs.go[g].pc = "processing"}

\* the goroutines that have run to their end
Finished == {g \in 1..gs.n : gs.go[g].pc = "done"}

\* C16: at most cfg.Workers processImage calls run at the same time; Run
\* reads the results only after every source's goroutine has finished; every
\* slot is written by the goroutine of its own source and by no other.
C16_BoundedWorkers ==
    /\ Cardinality(Processing) <= gs.workers
    /\ gs.sem <= gs.workers
    /\ gs.main \in {"collect", "done"} => Finished = 1..gs.n
    /\ gs.main = "done" =>
           \A k \in 1..gs.n : gs.collected[k] = [writes |-> 1, by |-> {k}]
    /\ \A k \in 1..Len(gs.results) :
           gs.results[k].by \subseteq {k} /\ gs.results[k].writes <= 1

\* C16 witness: four sources and two workers; two calls are running, the
\* third goroutine is held at the semaphore, the fourth has finished, and
\* Run is in wg.Wait
C16_Witness ==
    /\ gs.n = 4 /\ gs.workers = 2
    /\ gs.main = "wait"
    /\ Cardinality(Processing) = 2
    /\ \E g \in 1..gs.n : gs.go[g].pc = "start"
    /\ \E g \in Finished : gs.results[g] = [writes |-> 1, by |-> {g}]
    /\ gs.wg = 3

\* C17: during an Encode on a buffer an earlier Encode used, no cell of the
\* proxy region, of cosX, of cosY or of ac is loaded before the call has
\* zeroed or stored it; the colour cells a premultiplied source leaves
\* unstored (alpha sum 0) are loaded as the zeros of zeroF32.
C17_NoStaleLoad ==
    /\ \A r \in Regions : gs.wb.stale[r] = {}
    /\ gs.pc \in {"put", "ret"} =>
           LET n == ACCounts(Basis(gs.dstW, gs.dstH, gs.hasAlpha), gs.hasAlpha)
           IN  /\ 0..(gs.dstW * gs.dstH * 4 - 1) \subseteq gs.wb.def["rgba"]
               /\ 0..(TotalAC(n) - 1) \subseteq gs.wb.def["ac"]

\* C17 witness: a 3 x 3 premultiplied image whose pixel (0, 0) is fully
\* transparent, encoded on a buffer from the pool: extractPixels stored 33
\* of the 36 proxy cells, the call has run assembleHash with hasAlpha (all
\* bases 5 x 5 and 3 x 3), and the 24 + 8 + 8 + 24 cells of ac it packed and
\* the 5 * 3 cells of cosX it loaded were stored by it
C17_Witness ==
    /\ gs.pc = "ret"
    /\ ~gs.wb.fresh
    /\ gs.img = Image("RGBA", 3, 3, "hole")
    /\ Cardinality(ProxyStores(gs.img, gs.dstW, gs.dstH)) = 33
    /\ gs.hasAlpha
    /\ gs.wb.def["ac"] = 0..(24 + 8 + 8 + 24 - 1)
    /\ gs.wb.def["cosX"] = 0..14

\* ------------------------------------------------------------------------
\* Packing and unpacking: the header words and the nibble stream the encoder
\* stores for given quantized integers, read back by the decoder's shifts
\* and masks
\* ------------------------------------------------------------------------
MaxNibbles == 3
NibbleVals == {0, 6, 15}

\* every field at its least and greatest value, and with mixed bits
QuantTuples ==
    [lDC : {0, 21, 63}, pDC : {0, 37, 63}, qDC : {0, 63}, lScale : {0, 31},
     pScale : {42, 63}, qScale : {0, 63}, aDC : {0, 15}, aScale : {5, 15}]

PackDims == {1, 7}

NibbleSeqs == UNION {[1..k -> NibbleVals] : k \in {0, 1, MaxNibbles}}

PackInit ==
    /\ dec = Idle
    /\ NoEncode
    /\ dm \in [stage : {"quantized"}, q : QuantTuples, hasAlpha : BOOLEAN,
               isLandscape : BOOLEAN, dimFlag : PackDims, nibs : NibbleSeqs]

\* assembleHash from the quantized integers on: header, header2, alphaHdr,
\* the byte stores and packAC
PackBytes ==
    /\ dm.stage = "quantized"
    /\ dm' = [dm EXCEPT !.stage = "packed"]
               @@ [hash |-> PackHash(dm.q, dm.hasAlpha, dm.isLandscape, dm.dimFlag,
                                     dm.dimFlag, dm.nibs)]
    /\ UNCHANGED <<dec, imgs, pool, bufs, gs>>

\* the decoder's header parse, and readAC over the stream that was packed
UnpackBytes ==
    /\ dm.stage = "packed"
    /\ \E hd \in {ParseHeader(dm.hash)} :
         dm' = [dm EXCEPT !.stage = "parsed"]
                 @@ [hd |-> hd, read |-> readAC(dm.hash, hd.acOffset, Len(dm.nibs), 0)]
    /\ UNCHANGED <<dec, imgs, pool, bufs, gs>>

PackNext == PackBytes \/ UnpackBytes

SpecPack == PackInit /\ [][PackNext]_vars

\* C21: for every in-range tuple of header integers and every nibble
\* sequence, the integers the decoder extracts from the packed bytes are the
\* integers that were packed: the DC and scale fields of header and header2,
\* hasAlpha, dimFlag, isLandscape, the alpha fields when hasAlpha is set, the
\* AC offset (8 with alpha, 6 without) and every nibble of the stream, low
\* nibble first.
C21_PackUnpack ==
    dm.stage = "parsed" =>
       /\ dm.hd.lDC = dm.q.lDC
       /\ dm.hd.pDC = dm.q.pDC
       /\ dm.hd.qDC = dm.q.qDC
       /\ dm.hd.lScale = dm.q.lScale
       /\ dm.hd.pScale = dm.q.pScale
       /\ dm.hd.qScale = dm.q.qScale
       /\ dm.hd.hasAlpha = dm.hasAlpha
       /\ dm.hd.dimFlag = dm.dimFlag
       /\ dm.hd.isLandscape = dm.isLandscape
       /\ dm.hasAlpha => dm.hd.aDC = dm.q.aDC /\ dm.hd.aScale = dm.q.aScale
       /\ dm.hd.acOffset = (IF dm.hasAlpha THEN 8 ELSE 6)
       /\ dm.read = dm.nibs

\* C21 witness: an alpha hash with pDC = 63 and qDC = 63 (beyond five bits)
\* and an odd number of nibbles, read back
C21_Witness ==
    /\ dm.stage = "parsed"
    /\ dm.hasAlpha /\ dm.isLandscape /\ dm.dimFlag = 7
    /\ dm.q.pDC = 63 /\ dm.q.qDC = 63 /\ dm.q.lDC = 21 /\ dm.q.aScale = 5
    /\ dm.nibs = <<15, 6, 15>>
    /\ Len(dm.hash) = 10
    /\ dm.hash[9] = 111 /\ dm.hash[10] = 15
    /\ dm.read = <<15, 6, 15>>

\* ------------------------------------------------------------------------
\* Signed float32 arithmetic of assembleHash and encodeChan.  A float32 is
\* held as the binary64 number of the same value (the conversion float64(v)
\* is exact), and x op y in float32 is the binary64 result rounded once more
\* to 24 bits: for +, -, * and / of float32 operands the two roundings give
\* the correctly rounded float32.  Each operation is rounded on its own, as
\* the amd64 build does (no fused multiply-add); magnitudes stay above
\* 2^-126.
\* ------------------------------------------------------------------------
\* the 24-bit value q * 2^e rounded up by the bits below it
R32Pack(s, q, half, rest, e) == F64Pack(s, F64RoundUp(q, half, rest), e, FALSE)

\* float32(x) of a binary64 x
R32(x) ==
    IF F64IsZero(x) THEN F64Zero
    ELSE R32Pack(x.s, BigShr(x.m, 29), BigOdd(BigShr(x.m, 28)), BigLowBits(x.m, 28),
                 x.e + 29)

\* a proxy cell [m, e] (non-negative) as a number
S32FromF32(x) == F64Pack(0, BigFromInt(x.m), x.e, FALSE)

\* the float32 with sign s and value M * 2^E
S32Lit(t) == F64Pack(t[1], BigFromInt(t[2]), t[3], FALSE)

S32Add(x, y) == R32(F64Add(x, y))
S32Sub(x, y) == R32(F64Sub(x, y))
S32Mul(x, y) == R32(F64Mul(x, y))
S32Div(x, y) == R32(F64Div(x, y))
S32Abs(x) == [x EXCEPT !.s = 0]

\* math.Round: half away from zero
GoRound(x) == IF x.s = 0 THEN F64RoundMag(x) ELSE -F64RoundMag(x)

\* clamp01f
clamp01f(v) ==
    IF F64Less(v, F64Zero) THEN F64Zero
    ELSE IF F64Less(F64FromInt(1), v) THEN F64FromInt(1)
    ELSE v

\* float32(math.Cos(s * (float64(x) + 0.5))) with s = math.Pi * float64(c) /
\* float64(n), as <<sign, M, E>> for the value M * 2^E: row c + 1, column
\* x + 1, for n = 1 and n = 2
CosOne ==
    << << <<0, 8388608, -23>> >>, << <<0, 9253170, -77>> >>,
       << <<1, 8388608, -23>> >>, << <<1, 13879754, -76>> >>,
       << <<0, 8388608, -23>> >>, << <<0, 11566462, -75>> >>,
       << <<1, 8388608, -23>> >> >>

CosTwo ==
    << << <<0, 8388608, -23>>, <<0, 8388608, -23>> >>,
       << <<0, 11863283, -24>>, <<1, 11863283, -24>> >>,
       << <<0, 9253170, -77>>, <<1, 13879754, -76>> >>,
       << <<1, 11863283, -24>>, <<0, 11863283, -24>> >>,
       << <<1, 8388608, -23>>, <<1, 8388608, -23>> >>,
       << <<1, 11863283, -24>>, <<0, 11863283, -24>> >>,
       << <<1, 13879754, -76>>, <<0, 10409816, -74>> >> >>

\* cosX[c * n + x] (and cosY alike) for a side of n pixels
CosTab ==
    [n \in 1..2 |->
       [c \in 0..6 |->
          [x \in 0..(n - 1) |->
             S32Lit(IF n = 1 THEN CosOne[c + 1][x + 1] ELSE CosTwo[c + 1][x + 1])]]]

CosAt(n, c, x) == CosTab[n][c][x]

\* ------------------------------------------------------------------------
\* assembleHash in numbers: RGBA -> LPQA, encodeChan, quantization
\* ------------------------------------------------------------------------
S32Of(n) == F64FromInt(n)

\* 0.5
S32Half == S32Lit(<<0, 1, -1>>)

\* the proxy cells of pixel i (from 0) as numbers
ProxyPixel(rgba, i) ==
    <<S32FromF32(rgba[4 * i + 1]), S32FromF32(rgba[4 * i + 2]),
      S32FromF32(rgba[4 * i + 3]), S32FromF32(rgba[4 * i + 4])>>

\* (r + g + b) / 3, (r + g) / 2 - b, r - g; alpha stays
LpqaOf(r, g, b, a) ==
    <<S32Div(S32Add(S32Add(r, g), b), S32Of(3)),
      S32Sub(S32Div(S32Add(r, g), S32Of(2)), b),
      S32Sub(r, g),
      a>>

LpqaPixel(px) ==
    LpqaOf(S32Mul(px[1], px[4]), S32Mul(px[2], px[4]), S32Mul(px[3], px[4]), px[4])

\* the loop "RGBA -> LPQA in-place" over the count pixels
ToLPQA(rgba, count) == [i \in 1..count |-> LpqaPixel(ProxyPixel(rgba, i - 1))]

\* f += data[...] * cosX[cxBase + x] * fy, pixel i on, in index order
RECURSIVE ChanSum(_, _, _, _, _, _, _, _)
ChanSum(data, ch, w, h, cx, cy, i, f) ==
    IF i >= w * h THEN f
    ELSE ChanSum(data, ch, w, h, cx, cy, i + 1,
                 S32Add(f, S32Mul(S32Mul(data[i + 1][ch], CosAt(w, cx, i % w)),
                                  CosAt(h, cy, i \div w))))

\* encodeChan without the division by wh
ChanMeanNone(sum, wh) == sum

\* f /= wh
ChanMean(sum, wh) == S32Div(sum, wh)

Coefficient(data, ch, w, h, cx, cy) ==
    ChanMean(ChanSum(data, ch, w, h, cx, cy, 0, F64Zero), S32Of(w * h))

\* dst[0 .. nx * ny - 2] before normalisation: cy outer, cx inner, (0, 0)
\* skipped
RawAC(data, ch, w, h, nx, ny) ==
    [k \in 1..(nx * ny - 1) |-> Coefficient(data, ch, w, h, k % nx, k \div nx)]

\* acMax
MaxAbs(raw) ==
    LET abs == {F64Zero} \cup {S32Abs(raw[k]) : k \in 1..Len(raw)}
    IN CHOOSE m \in abs : \A o \in abs : ~F64Less(m, o)

\* dst[i] *= inv
Normalised(raw, inv) == [i \in 1..Len(raw) |-> S32Mul(raw[i], inv)]

\* what encodeChan returns (acMax, dc) and leaves in dst
ChanResult(raw, acMax, dc) ==
    [scale |-> acMax, dc |-> dc,
     ac |-> IF F64Less(F64Zero, acMax) THEN Normalised(raw, S32Div(S32Of(1), acMax))
            ELSE raw]

NoChannel == [scale |-> F64Zero, dc |-> F64Zero, ac |-> <<>>]

\* math.Round(float64(v) * k) and math.Round(float64(v) * 31 + 31)
QuantTimes(v, k) == GoRound(F64Mul(v, F64FromInt(k)))
QuantSigned(v) == GoRound(F64Add(F64Mul(v, F64FromInt(31)), F64FromInt(31)))

\* packAC: math.Round(float64(clamp01f(c / 2 + 0.5)) * 15)
QuantNibble(c) == QuantTimes(clamp01f(S32Add(S32Div(c, S32Of(2)), S32Half)), 15)

QuantNibbles(ac) == [i \in 1..Len(ac) |-> QuantNibble(ac[i])]

\* the integers math.Round hands to the uint32 / uint16 conversions
Quantized(ch, hasAlpha) ==
    [lDC |-> QuantTimes(ch.l.dc, 63),
     pDC |-> QuantSigned(ch.p.dc),
     qDC |-> QuantSigned(ch.q.dc),
     lScale |-> QuantTimes(ch.l.scale, 31),
     pScale |-> QuantTimes(ch.p.scale, 63),
     qScale |-> QuantTimes(ch.q.scale, 63),
     aDC |-> IF hasAlpha THEN QuantTimes(ch.a.dc, 15) ELSE 0,
     aScale |-> IF hasAlpha THEN QuantTimes(ch.a.scale, 15) ELSE 0]

\* ------------------------------------------------------------------------
\* One Encode in numbers, on images of one or two pixels given byte by byte:
\* proxy, LPQA, the four encodeChan calls, quantization, packing
\* ------------------------------------------------------------------------
\* white, yellow, blue, red, a half-transparent green, a nearly opaque grey
\* and a transparent pixel; in the RGBA layout the bytes are taken as they
\* are, premultiplied or not
PixelBytes ==
    {<<255, 255, 255, 255>>, <<255, 255, 0, 255>>, <<0, 0, 255, 255>>,
     <<255, 0, 0, 255>>, <<0, 255, 0, 128>>, <<100, 100, 100, 254>>,
     <<90, 7, 200, 0>>}

QuantShapes == {<<1, 1>>, <<2, 1>>, <<1, 2>>}

QuantImages ==
    UNION {[layout : {"NRGBA", "RGBA"}, W : {sh[1]}, H : {sh[2]}, kind : {"raw"},
            px : [1..(sh[1] * sh[2]) -> PixelBytes]] : sh \in QuantShapes}

QuantInit ==
    /\ dec = Idle
    /\ NoEncode
    /\ dm \in [stage : {"image"}, img : QuantImages]

\* Encode up to the proxy: thumbDims, zeroF32, extractPixels
QuantProxy ==
    /\ dm.stage = "image"
    /\ \E d \in {thumbDims(dm.img.W, dm.img.H)} :
         dm' = [stage |-> "proxy", img |-> dm.img, w |-> d[1], h |-> d[2],
                rgba |-> BuildProxy(dm.img, d[1], d[2],
                                    zeroF32(<<>>, d[1] * d[2] * 4))]
    /\ UNCHANGED <<dec, imgs, pool, bufs, gs>>

\* assembleHash: hasAlpha, the basis, RGBA -> LPQA
QuantLPQA ==
    /\ dm.stage = "proxy"
    /\ \E hasAlpha \in {F32Less(AvgAlpha(dm.rgba, dm.w * dm.h), F32One)} :
         dm' = [stage |-> "lpqa", img |-> dm.img, w |-> dm.w, h |-> dm.h,
                hasAlpha |-> hasAlpha, basis |-> Basis(dm.w, dm.h, hasAlpha),
                lpqa |-> ToLPQA(dm.rgba, dm.w * dm.h)]
    /\ UNCHANGED <<dec, imgs, pool, bufs, gs>>

\* the raw coefficients of one encodeChan call (dc first)
ChanRaw(ch, nx, ny) ==
    [dc |-> Coefficient(dm.lpqa, ch, dm.w, dm.h, 0, 0),
     raw |-> RawAC(dm.lpqa, ch, dm.w, dm.h, nx, ny)]

\* the DCT loops of the encodeChan calls
QuantDCT ==
    /\ dm.stage = "lpqa"
    /\ dm' = [dm EXCEPT !.stage = "dct"]
               @@ [l |-> ChanRaw(1, dm.basis.lx, dm.basis.ly),
                   p |-> ChanRaw(2, dm.basis.px, dm.basis.py),
                   q |-> ChanRaw(3, dm.basis.px, dm.basis.py),
                   a |-> IF dm.hasAlpha THEN ChanRaw(4, dm.basis.ax, dm.basis.ay)
                         ELSE [dc |-> F64Zero, raw |-> <<>>]]
    /\ UNCHANGED <<dec, imgs, pool, bufs, gs>>

ChanOf(c) == ChanResult(c.raw, MaxAbs(c.raw), c.dc)

\* acMax and the normalisation of each call, then math.Round on every field
\* and every nibble of lAC, pAC, qAC, aAC
Quantize(chans, hasAlpha) ==
    [q |-> Quantized(chans, hasAlpha),
     nibs |-> QuantNibbles(chans.l.ac) \o QuantNibbles(chans.p.ac)
              \o QuantNibbles(chans.q.ac) \o QuantNibbles(chans.a.ac)]

QuantRound ==
    /\ dm.stage = "dct"
    /\ \E r \in {Quantize([l |-> ChanOf(dm.l), p |-> ChanOf(dm.p), q |-> ChanOf(dm.q),
                           a |-> ChanOf(dm.a)], dm.hasAlpha)} :
         dm' = [stage |-> "rounded", img |-> dm.img, w |-> dm.w, h |-> dm.h,
                hasAlpha |-> dm.hasAlpha, basis |-> dm.basis, q |-> r.q,
                nibs |-> r.nibs]
    /\ UNCHANGED <<dec, imgs, pool, bufs, gs>>

\* the conversions uint32(...), uint16(...) and byte(...) keep an integer
\* that the target type holds; any other converts as the platform decides
Converts(q, nibs) ==
    /\ \A f \in DOMAIN q : q[f] \in 0..65535
    /\ \A i \in 1..Len(nibs) : nibs[i] \in 0..255

\* header, header2, alphaHdr and the bytes of the hash
QuantPack ==
    /\ dm.stage = "rounded"
    /\ IF Converts(dm.q, dm.nibs)
       THEN dm' = [dm EXCEPT !.stage = "packed"]
                    @@ [header |-> Header(dm.q, dm.hasAlpha, dm.w > dm.h,
                                          dm.basis.lx, dm.basis.ly),
                        header2 |-> Header2(dm.q),
                        hash |-> PackHash(dm.q, dm.hasAlpha, dm.w > dm.h,
                                          dm.basis.lx, dm.basis.ly, dm.nibs)]
       ELSE dm' = [dm EXCEPT !.stage = "unconverted"]
    /\ UNCHANGED <<dec, imgs, pool, bufs, gs>>

QuantNext == QuantProxy \/ QuantLPQA \/ QuantDCT \/ QuantRound \/ QuantPack

SpecQuant == QuantInit /\ [][QuantNext]_vars

GenericValues ==
    {<<65535, 0, 0, 65535>>, <<0, 65535, 0, 32768>>, <<1000, 2000, 3000, 4000>>,
     <<0, 0, 0, 0>>, <<32768, 100, 1, 32768>>}

PixelValues(layout) == IF layout = "generic" THEN GenericValues ELSE PixelBytes

ProxyLayouts == {"NRGBA", "RGBA", "generic"}

\* W x H pixels, every third one a and the others b
Striped(layout, W, H, a, b) ==
    [layout |-> layout, W |-> W, H |-> H, kind |-> "raw",
     px |-> [i \in 1..(W * H) |-> IF i % 3 = 0 THEN a ELSE b]]

\* shapes of the direct path and shapes past maxThumbDim
ProxyShapes == {<<1, 1>>, <<3, 1>>, <<101, 1>>, <<2, 250>>}

ProxyImages ==
    UNION {{Striped(layout, sh[1], sh[2], a, b) :
               sh \in ProxyShapes, a \in PixelValues(layout), b \in PixelValues(layout)} :
           layout \in ProxyLayouts}

ProxyInit ==
    /\ dec = Idle
    /\ NoEncode
    /\ dm \in [stage : {"image"}, img : ProxyImages]

ProxyNext == QuantProxy

SpecProxy == ProxyInit /\ [][ProxyNext]_vars

InUnit(c) == ~F32Less(F32One, c)

\* every colour value of the image is at most its alpha value
WithinAlpha(img) ==
    \A k \in 1..Len(img.px) : \A ch \in 1..3 : img.px[k][ch] <= img.px[k][4]

\* the image has as many pixels as the proxy: extractPixels filled it
DirectPath == dm.img.W = dm.w /\ dm.img.H = dm.h

BasisInit ==
    /\ dec = Idle
    /\ NoEncode
    /\ dm \in [stage : {"proxy"}, w : 1..maxThumbDim, h : 1..maxThumbDim,
               hasAlpha : BOOLEAN]

\* assembleHash lines 560-573
BasisSelect ==
    /\ dm.stage = "proxy"
    /\ dm' = [stage |-> "basis", w |-> dm.w, h |-> dm.h, hasAlpha |-> dm.hasAlpha,
              b |-> Basis(dm.w, dm.h, dm.hasAlpha)]
    /\ UNCHANGED <<dec, imgs, pool, bufs, gs>>

BasisNext == BasisSelect

SpecBasis == BasisInit /\ [][BasisNext]_vars

\* the rational n / d rounded to an integer, ties away from zero and ties to
\* the even neighbour (n >= 0, d > 0)
RatHalfAway(n, d) == (2 * n + d) \div (2 * d)

RatHalfEven(n, d) ==
    LET q == n \div d
    IN IF 2 * (n % d) > d \/ (2 * (n % d) = d /\ q % 2 = 1) THEN q + 1 ELSE q

\* the six dimensions, each max(1, rnd(limit * side / maxWH))
BasisBy(rnd(_, _), w, h, lLimit) ==
    [lx |-> max1(rnd(lLimit * w, imax(w, h))), ly |-> max1(rnd(lLimit * h, imax(w, h))),
     px |-> max1(rnd(3 * w, imax(w, h))), py |-> max1(rnd(3 * h, imax(w, h))),
     ax |-> max1(rnd(5 * w, imax(w, h))), ay |-> max1(rnd(5 * h, imax(w, h)))]

\* C24 as stated: every basis dimension is max(1, round(limit * dst / maxWH))
\* with round-half-to-even, the luma limit being 7 without alpha and 5 with.
C24_RoundHalfEven ==
    dm.stage = "basis" =>
        LET e == BasisBy(RatHalfEven, dm.w, dm.h, LumaLimit(dm.hasAlpha))
        IN /\ dm.b.lx = e.lx /\ dm.b.ly = e.ly /\ dm.b.px = e.px /\ dm.b.py = e.py
           /\ dm.hasAlpha => (dm.b.ax = e.ax /\ dm.b.ay = e.ay)

\* C24 amended: every basis dimension is max(1, round(limit * dst / maxWH))
\* with ties rounded away from zero (2.5 gives 3); ax and ay are selected
\* only with alpha and are 0 without.
C24_RoundHalfAway ==
    dm.stage = "basis" =>
        LET e == BasisBy(RatHalfAway, dm.w, dm.h, LumaLimit(dm.hasAlpha))
        IN /\ dm.b.lx = e.lx /\ dm.b.ly = e.ly /\ dm.b.px = e.px /\ dm.b.py = e.py
           /\ IF dm.hasAlpha THEN dm.b.ax = e.ax /\ dm.b.ay = e.ay
              ELSE dm.b.ax = 0 /\ dm.b.ay = 0

\* a 1 x 2 proxy with alpha: 5 * 1 / 2 = 2.5 gives lx = ax = 3
C24_Witness ==
    /\ dm.stage = "basis" /\ dm.w = 1 /\ dm.h = 2 /\ dm.hasAlpha
    /\ dm.b.lx = 3 /\ dm.b.ax = 3 /\ dm.b.ly = 5 /\ dm.b.px = 2 /\ dm.b.py = 3

\* ------------------------------------------------------------------------
\* The spans of the area downscalers, axis by axis: the luma (or RGBA) plane
\* and the halved chroma planes of dsYCbCr420
\* ------------------------------------------------------------------------
SpanSides == (1..8) \cup (95..110) \cup {150, 199, 200, 201, 256, 333, 900, 4000}

SpanInit ==
    /\ dec = Idle
    /\ NoEncode
    /\ dm \in [stage : {"src"}, srcW : SpanSides, srcH : SpanSides]

\* srcSpan(d, dstSize, srcSize) for every d of the loop, in loop order
Spans(dstSize, srcSize) == [d \in 1..dstSize |-> srcSpan(d - 1, dstSize, srcSize)]

\* (srcW + 1) >> 1
ChromaSize(n) == (n + 1) \div 2

TakesDirect(srcW, srcH) ==
    srcW <= thumbDims(srcW, srcH)[1] /\ srcH <= thumbDims(srcW, srcH)[2]

\* Encode with srcW <= dstW && srcH <= dstH: extractPixels, no span is taken
SpanDirect ==
    /\ dm.stage = "src"
    /\ TakesDirect(dm.srcW, dm.srcH)
    /\ dm' = [dm EXCEPT !.stage = "direct"]
    /\ UNCHANGED <<dec, imgs, pool, bufs, gs>>

SpansOf(srcW, srcH, dstW, dstH) ==
    [stage |-> "spans", srcW |-> srcW, srcH |-> srcH, dstW |-> dstW, dstH |-> dstH,
     cSrcW |-> ChromaSize(srcW), cSrcH |-> ChromaSize(srcH),
     sx |-> Spans(dstW, srcW), sy |-> Spans(dstH, srcH),
     csx |-> Spans(dstW, ChromaSize(srcW)), csy |-> Spans(dstH, ChromaSize(srcH))]

\* areaDownscale: the spans of both passes of the downscaler
SpanDownscale ==
    /\ dm.stage = "src"
    /\ ~TakesDirect(dm.srcW, dm.srcH)
    /\ dm' = SpansOf(dm.srcW, dm.srcH, thumbDims(dm.srcW, dm.srcH)[1],
                     thumbDims(dm.srcW, dm.srcH)[2])
    /\ UNCHANGED <<dec, imgs, pool, bufs, gs>>

SpanNext == SpanDirect \/ SpanDownscale

SpecSpan == SpanInit /\ [][SpanNext]_vars

SpansInside(spans, srcSize) ==
    \A d \in 1..Len(spans) :
        0 <= spans[d][1] /\ spans[d][1] < spans[d][2] /\ spans[d][2] <= srcSize

\* C25: every span of the downscalers, on the full-size plane and on the
\* halved chroma planes (which may be smaller than the destination), has
\* 0 <= s0 < s1 <= srcSize.
C25_SpansInside ==
    dm.stage = "spans" =>
        /\ SpansInside(dm.sx, dm.srcW) /\ SpansInside(dm.sy, dm.srcH)
        /\ SpansInside(dm.csx, dm.cSrcW) /\ SpansInside(dm.csy, dm.cSrcH)

\* a 101 x 3 source: 100 destination columns over 51 chroma columns, where
\* destination columns 1 and 2 share chroma column 0
C25_Witness ==
    /\ dm.stage = "spans" /\ dm.srcW = 101 /\ dm.srcH = 3
    /\ dm.dstW = 100 /\ dm.dstH = 2 /\ dm.cSrcW = 51
    /\ dm.csx[1] = <<0, 1>> /\ dm.csx[2] = <<0, 1>> /\ dm.csx[100] = <<50, 51>>
    /\ dm.sx[100] = <<99, 101>>

Partitions(spans, srcSize) ==
    /\ spans[1][1] = 0
    /\ spans[Len(spans)][2] = srcSize
    /\ \A d \in 1..(Len(spans) - 1) : spans[d][2] = spans[d + 1][1]
    /\ \A d \in 1..Len(spans) : spans[d][1] < spans[d][2]

\* C26: on an axis with dstSize <= srcSize the spans are adjacent, disjoint
\* and cover 0..srcSize-1, so every source index lies in exactly one span.
C26_SpansPartition ==
    dm.stage = "spans" =>
        /\ Partitions(dm.sx, dm.srcW) /\ Partitions(dm.sy, dm.srcH)
        /\ dm.dstW <= dm.cSrcW => Partitions(dm.csx, dm.cSrcW)
        /\ dm.dstH <= dm.cSrcH => Partitions(dm.csy, dm.cSrcH)
        /\ \A s \in 0..(dm.srcW - 1) :
              \E d \in 1..dm.dstW :
                 /\ dm.sx[d][1] <= s /\ s < dm.sx[d][2]
                 /\ \A e \in 1..dm.dstW : (dm.sx[e][1] <= s /\ s < dm.sx[e][2]) => e = d

\* a 333 x 150 source: 100 x 45 cells, columns of 3 or 4 samples and rows
\* of 3 or 4 samples
C26_Witness ==
    /\ dm.stage = "spans" /\ dm.srcW = 333 /\ dm.srcH = 150
    /\ dm.dstW = 100 /\ dm.dstH = 45
    /\ dm.sx[1] = <<0, 3>> /\ dm.sx[4] = <<9, 13>> /\ dm.sx[100] = <<329, 333>>
    /\ dm.sy[1] = <<0, 3>> /\ dm.sy[45] = <<146, 150>>

\* ------------------------------------------------------------------------
\* TgImg.tsx, use-tgimg.ts : one mounted <TgImg> in the full pipeline.
\* State updates (a new selection, setLoaded) are queued and applied by the
\* next render; load events and decode completions arrive in any order.
\*   imgSrc    the imgSrc of the last render, "null" while none is selected
\*   prevSrc   prevSrc.current          guard   srcGuardRef.current
\*   nextSrc   the imgSrc the queued updates lead to, "none" if none queued
\*   setLoaded a queued setLoaded(true)
\*   decodes   the captured srcs of the decode() promises still pending
\*   onLoads   calls of the onLoad prop  revealed  capturedSrc of the last
\*   commit that passed the guard        stale  a commit was dropped
\* ------------------------------------------------------------------------
MaxOnLoad == 2

SrcNames == {"a", "b"}

Mounted ==
    [stage |-> "mounted", imgSrc |-> "null", prevSrc |-> "null", guard |-> "null",
     loaded |-> FALSE, nextSrc |-> "none", setLoaded |-> FALSE, decodes |-> {},
     onLoads |-> 0, revealed |-> "null", stale |-> FALSE]

ImgInit ==
    /\ dec = Idle
    /\ NoEncode
    /\ dm = Mounted

\* setFormats, setContainerWidth or new props: the selection will give s
Select(s) ==
    /\ dm' = [dm EXCEPT !.nextSrc = s]
    /\ UNCHANGED <<dec, imgs, pool, bufs, gs>>

\* One render of useTgImg and TgImgFull with the queued updates applied,
\* the re-render that a render-phase setLoaded(false) causes included.
Render ==
    /\ dm.nextSrc # "none" \/ dm.setLoaded
    /\ \E src \in {IF dm.nextSrc = "none" THEN dm.imgSrc ELSE dm.nextSrc} :
         dm' = [dm EXCEPT !.imgSrc = src, !.guard = src, !.prevSrc = src,
                          !.loaded = IF dm.prevSrc # src THEN FALSE
                                     ELSE dm.loaded \/ dm.setLoaded,
                          !.nextSrc = "none", !.setLoaded = FALSE]
    /\ UNCHANGED <<dec, imgs, pool, bufs, gs>>

\* the load event of the rendered <img>: capturedSrc = imgSrc, decode() starts
handleLoad ==
    /\ dm.imgSrc # "null"
    /\ dm' = [dm EXCEPT !.decodes = @ \cup {dm.imgSrc}]
    /\ UNCHANGED <<dec, imgs, pool, bufs, gs>>

\* commit without the srcGuardRef test
commitUnguarded(capturedSrc) ==
    [dm EXCEPT !.decodes = @ \ {capturedSrc}, !.setLoaded = TRUE,
               !.onLoads = @ + 1, !.revealed = capturedSrc]

\* commit: dropped when srcGuardRef.current differs, else onImgLoad, onLoad
commit(capturedSrc) ==
    IF dm.guard # capturedSrc
    THEN [dm EXCEPT !.decodes = @ \ {capturedSrc}, !.stale = TRUE]
    ELSE [dm EXCEPT !.decodes = @ \ {capturedSrc}, !.setLoaded = TRUE,
                    !.onLoads = @ + 1, !.revealed = capturedSrc]

\* a pending decode() settles (resolved or rejected) and finalCommit runs
DecodeSettles ==
    /\ dm.onLoads < MaxOnLoad
    /\ \E c \in dm.decodes : dm' = commit(c)
    /\ UNCHANGED <<dec, imgs, pool, bufs, gs>>

ImgNext ==
    \/ \E s \in SrcNames \cup {"null"} : Select(s)
    \/ Render
    \/ handleLoad
    \/ DecodeSettles

SpecImg == ImgInit /\ [][ImgNext]_vars

\* C27: a decode completion sets loaded and calls onLoad only when its
\* captured src is the imgSrc of the current render; loaded turns true only
\* for such a completion; and every change of imgSrc leaves loaded false.
C27_StaleDecodeIgnored ==
    [][/\ (dm'.onLoads > dm.onLoads \/ (dm'.setLoaded /\ ~dm.setLoaded))
            => (dm'.revealed = dm.imgSrc /\ dm'.revealed \in dm.decodes)
       /\ (dm'.loaded /\ ~dm.loaded) => dm.revealed = dm'.imgSrc
       /\ dm'.imgSrc # dm.imgSrc => ~dm'.loaded]_vars

\* b is shown after a's decode completion came late and was dropped
C27_Witness ==
    /\ dm.stage = "mounted" /\ dm.loaded /\ dm.stale
    /\ dm.imgSrc = "b" /\ dm.revealed = "b" /\ dm.onLoads = 1

\* ------------------------------------------------------------------------
\* format-detect.ts, use-tgimg.ts : the shared format detection of a page.
\*   cached, pending   _cached, _pending ("null" or set)
\*   formatPromise     _formatPromise of use-tgimg.ts
\*   avif, webp        the probes: "unstarted", "loading", "yes" or "no"
\*   started           how many times the pair of probes was started
\*   callers           per caller: pc and, once delivered, the FormatSupport
\* A caller is either a direct detectFormats() call or a mounted component
\* (render, then its effect).
\* ------------------------------------------------------------------------
MaxCallers == 3

Callers == 1..MaxCallers

\* null, and a FormatSupport object f as <<f>>
NoFormats == <<>>

FormatSupport(avif, webp) == [avif |-> avif, webp |-> webp, jpeg |-> TRUE, png |-> TRUE]

PageInit ==
    /\ dec = Idle
    /\ NoEncode
    /\ dm = [stage |-> "page", cached |-> NoFormats, pending |-> FALSE,
             formatPromise |-> FALSE, avif |-> "unstarted", webp |-> "unstarted",
             started |-> 0, completed |-> 0,
             callers |-> [k \in Callers |-> [pc |-> "idle", res |-> NoFormats]]]

getFormatsSync == dm.cached

Deliver(d, k, res) == [d EXCEPT !.callers[k] = [pc |-> "done", res |-> res]]

Await(d, k) == [d EXCEPT !.callers[k].pc = "waiting"]

StartProbes(d) ==
    [d EXCEPT !.pending = TRUE, !.avif = "loading", !.webp = "loading",
              !.started = @ + 1]

\* detectFormats that does not look at _pending
detectFormatsUnshared(d, k) ==
    IF d.cached # NoFormats THEN Deliver(d, k, d.cached)
    ELSE Await(StartProbes(d), k)

\* detectFormats() called for caller k in page state d
detectFormats(d, k) ==
    IF d.cached # NoFormats THEN Deliver(d, k, d.cached)
    ELSE IF d.pending THEN Await(d, k)
    ELSE Await(StartProbes(d), k)

\* a direct call of detectFormats()
Detect(k) ==
    /\ dm.callers[k].pc = "idle"
    /\ dm' = detectFormats(dm, k)
    /\ UNCHANGED <<dec, imgs, pool, bufs, gs>>

\* first render of a component: useState(getFormatsSync)
MountRender(k) ==
    /\ dm.callers[k].pc = "idle"
    /\ dm' = IF getFormatsSync # NoFormats THEN Deliver(dm, k, getFormatsSync)
             ELSE [dm EXCEPT !.callers[k].pc = "rendered"]
    /\ UNCHANGED <<dec, imgs, pool, bufs, gs>>

\* the effect of a component rendered without formats: ensureFormatDetection
ensureFormatDetection(k) ==
    /\ dm.callers[k].pc = "rendered"
    /\ dm' = IF getFormatsSync # NoFormats THEN Deliver(dm, k, getFormatsSync)
             ELSE IF ~dm.formatPromise
             THEN [detectFormats(dm, k) EXCEPT !.formatPromise = TRUE]
             ELSE Await(dm, k)
    /\ UNCHANGED <<dec, imgs, pool, bufs, gs>>

\* probeFormat: onload or onerror of one probe image
ProbeSettles ==
    /\ \E ok \in {"yes", "no"} :
         \/ dm.avif = "loading" /\ dm' = [dm EXCEPT !.avif = ok]
         \/ dm.webp = "loading" /\ dm' = [dm EXCEPT !.webp = ok]
    /\ UNCHANGED <<dec, imgs, pool, bufs, gs>>

\* Promise.all has both results: _cached is set, _pending cleared, and the
\* promise every waiting caller holds resolves with the result
DetectionCompletes ==
    /\ dm.pending
    /\ dm.avif \in {"yes", "no"} /\ dm.webp \in {"yes", "no"}
    /\ \E result \in {<<FormatSupport(dm.avif = "yes", dm.webp = "yes")>>} :
         dm' = [dm EXCEPT !.cached = result, !.pending = FALSE,
                          !.completed = @ + 1,
                          !.callers = [k \in Callers |->
                                         IF dm.callers[k].pc = "waiting"
                                         THEN [pc |-> "done", res |-> result]
                                         ELSE dm.callers[k]]]
    /\ UNCHANGED <<dec, imgs, pool, bufs, gs>>

PageNext ==
    \/ \E k \in Callers : Detect(k) \/ MountRender(k) \/ ensureFormatDetection(k)
    \/ ProbeSettles
    \/ DetectionCompletes

SpecPage == PageInit /\ [][PageNext]_vars

\* what a page state d has to satisfy
SharedDetection(d) ==
    /\ d.started <= 1
    /\ d.cached = NoFormats <=> d.completed = 0
    /\ d.cached # NoFormats => d.cached[1].jpeg /\ d.cached[1].png
    /\ \A k \in Callers :
          /\ d.callers[k].pc = "done" => d.callers[k].res = d.cached /\ d.cached # NoFormats
          /\ d.callers[k].pc = "waiting" => d.pending

\* C28: under every interleaving of detectFormats() calls and mounts the
\* probes are started at most once, every caller gets the result of that
\* one detection, getFormatsSync is null until it completes and the same
\* result ever after, and jpeg and png are reported as supported.
C28_OneDetection ==
    [][/\ SharedDetection(dm')
       /\ dm.cached # NoFormats => dm'.cached = dm.cached]_vars

\* a direct call, a component mounted while the detection was pending and a
\* component mounted after it all hold the one result: avif no, webp yes
C28_Witness ==
    /\ dm.stage = "page" /\ dm.started = 1 /\ dm.completed = 1
    /\ dm.cached = <<FormatSupport(FALSE, TRUE)>>
    /\ \A k \in Callers : dm.callers[k] = [pc |-> "done", res |-> dm.cached]
    /\ dm.formatPromise

\* ------------------------------------------------------------------------
\* tgimg build: Pipeline.Run (scan, process, collect), WriteJSON and the
\* build report.  The goroutines of Run finish in any order; each writes the
\* result slot of its own source.
\* ------------------------------------------------------------------------
MaxFiles == 3

\* asset keys: two files that differ only in their extension share a key
AssetKeys == {"a", "b"}

\* the scanned sources, in walk order
SourceLists ==
    UNION {[1..n -> [key : AssetKeys, size : {10}]] : n \in 0..MaxFiles}

\* what happens to one (width, format) pair of a source: the encoder fails,
\* the encoded data has 3 or 30 bytes, or the 3 bytes cannot be written
VariantOutcomes == {"encfail", "small", "big", "writefail"}

\* open or decode fails (<<>> with opened FALSE), or the pairs in loop order
ImageOutcomes ==
    {[opened |-> FALSE, pairs |-> <<>>]}
        \cup [opened : {TRUE}, pairs : [1..2 -> VariantOutcomes]]

EncodedSize(outcome) == IF outcome = "big" THEN 30 ELSE 3

Unprocessed == [done |-> FALSE]

\* the loop over widths and formats of processImage, from pair j on
RECURSIVE EncodePairs(_, _, _, _, _)
EncodePairs(src, noRegress, pairs, j, result) ==
    IF j > Len(pairs) THEN result
    ELSE IF pairs[j] = "encfail"
    THEN EncodePairs(src, noRegress, pairs, j + 1, result)
    ELSE IF noRegress /\ EncodedSize(pairs[j]) >= src.size
    THEN EncodePairs(src, noRegress, pairs, j + 1,
                     [result EXCEPT !.skippedRegress = @ + 1])
    ELSE IF pairs[j] = "writefail" THEN [result EXCEPT !.err = TRUE]
    ELSE EncodePairs(src, noRegress, pairs, j + 1,
                     [result EXCEPT !.asset.variants = Append(@, EncodedSize(pairs[j]))])

\* processImage of source number idx
processImage(src, idx, noRegress, outcome) ==
    IF ~outcome.opened
    THEN [done |-> TRUE, key |-> src.key, err |-> TRUE, skippedRegress |-> 0,
          asset |-> [from |-> 0, size |-> 0, variants |-> <<>>]]
    ELSE EncodePairs(src, noRegress, outcome.pairs, 1,
                     [done |-> TRUE, key |-> src.key, err |-> FALSE, skippedRegress |-> 0,
                      asset |-> [from |-> idx, size |-> src.size, variants |-> <<>>]])

RECURSIVE SeqSum(_, _)
SeqSum(s, j) == IF j > Len(s) THEN 0 ELSE s[j] + SeqSum(s, j + 1)

RECURSIVE AssetSum(_, _, _)
AssetSum(f(_), assets, keys) ==
    IF keys = {} THEN 0
    ELSE LET k == CHOOSE k \in keys : TRUE
         IN f(assets[k]) + AssetSum(f, assets, keys \ {k})

InputBytes(a) == a.size
VariantCount(a) == Len(a.variants)
OutputBytes(a) == SeqSum(a.variants, 1)

\* ComputeStats: a zero Stats filled from the assets replaces m.Stats
ComputeStats(m) ==
    [m EXCEPT !.Stats =
        [TotalAssets |-> Cardinality(DOMAIN m.Assets),
         TotalInputBytes |-> AssetSum(InputBytes, m.Assets, DOMAIN m.Assets),
         TotalVariants |-> AssetSum(VariantCount, m.Assets, DOMAIN m.Assets),
         TotalOutputBytes |-> AssetSum(OutputBytes, m.Assets, DOMAIN m.Assets),
         SkippedRegress |-> 0]]

ZeroStats ==
    [TotalAssets |-> 0, TotalInputBytes |-> 0, TotalVariants |-> 0,
     TotalOutputBytes |-> 0, SkippedRegress |-> 0]

\* manifest.New
NewManifest == [Assets |-> <<>>, Stats |-> ZeroStats]

\* m.Assets[key] = asset
PutAsset(assets, key, asset) ==
    [k \in DOMAIN assets \cup {key} |-> IF k = key THEN asset ELSE assets[k]]

NoneCollected == [m |-> NewManifest, errs |-> 0, totalSkipped |-> 0]

\* the collecting loop body without its test of r.err
CollectAny(acc, r) ==
    [m |-> [acc.m EXCEPT !.Assets = PutAsset(@, r.key, r.asset)],
     errs |-> acc.errs + (IF r.err THEN 1 ELSE 0),
     totalSkipped |-> acc.totalSkipped + r.skippedRegress]

\* one turn of the collecting loop of Run
CollectResult(acc, r) ==
    IF r.err THEN [acc EXCEPT !.errs = @ + 1]
    ELSE [m |-> [acc.m EXCEPT !.Assets = PutAsset(@, r.key, r.asset)],
          errs |-> acc.errs,
          totalSkipped |-> acc.totalSkipped + r.skippedRegress]

RECURSIVE CollectFrom(_, _, _)
CollectFrom(results, j, acc) ==
    IF j > Len(results) THEN acc
    ELSE CollectFrom(results, j + 1, CollectResult(acc, results[j]))

BuildInit ==
    /\ dec = Idle
    /\ NoEncode
    /\ dm \in [stage : {"start"}, scanErr : BOOLEAN, sources : SourceLists,
               noRegress : BOOLEAN]

BuildRest == UNCHANGED <<dec, imgs, pool, bufs, gs>>

\* Run has returned: an error (with a nil manifest) or the manifest, whose
\* Stats.SkippedRegress Run set to k
RunReturns(d, results, ret, m, k) ==
    [stage |-> "returned", scanErr |-> d.scanErr, sources |-> d.sources,
     noRegress |-> d.noRegress, results |-> results, ret |-> ret, m |-> m, k |-> k]

\* Run, step 1: ScanImages fails, finds nothing, or the goroutines start
BuildScan ==
    /\ dm.stage = "start"
    /\ dm' = IF dm.scanErr THEN RunReturns(dm, <<>>, "scan error", NewManifest, 0)
             ELSE IF Len(dm.sources) = 0
             THEN RunReturns(dm, <<>>, "no images found", NewManifest, 0)
             ELSE [stage |-> "processing", scanErr |-> dm.scanErr,
                   sources |-> dm.sources, noRegress |-> dm.noRegress,
                   results |-> [i \in 1..Len(dm.sources) |-> Unprocessed]]
    /\ BuildRest

\* Run, step 2: the goroutine of source idx stores its result
BuildProcess(idx) ==
    /\ dm.stage = "processing"
    /\ idx \in 1..Len(dm.sources)
    /\ ~dm.results[idx].done
    /\ \E outcome \in ImageOutcomes :
         dm' = [dm EXCEPT !.results[idx] =
                   processImage(dm.sources[idx], idx, dm.noRegress, outcome)]
    /\ BuildRest

\* Run after wg.Wait, step 3 to the return
BuildCollect ==
    /\ dm.stage = "processing"
    /\ \A i \in 1..Len(dm.sources) : dm.results[i].done
    /\ \E c \in {CollectFrom(dm.results, 1, NoneCollected)} :
         dm' = IF c.errs = Len(dm.sources)
               THEN RunReturns(dm, dm.results, "all images failed", NewManifest, 0)
               ELSE RunReturns(dm, dm.results, "manifest",
                               [ComputeStats(c.m) EXCEPT !.Stats.SkippedRegress = c.totalSkipped],
                               c.totalSkipped)
    /\ BuildRest

\* the Stats object as json.MarshalIndent writes it: skipped_regress has
\* omitempty
StatsJSON(s) ==
    IF s.SkippedRegress = 0
    THEN [total_input_bytes |-> s.TotalInputBytes, total_output_bytes |-> s.TotalOutputBytes,
          total_assets |-> s.TotalAssets, total_variants |-> s.TotalVariants]
    ELSE [total_input_bytes |-> s.TotalInputBytes, total_output_bytes |-> s.TotalOutputBytes,
          total_assets |-> s.TotalAssets, total_variants |-> s.TotalVariants,
          skipped_regress |-> s.SkippedRegress]

\* runBuild after Run returned a manifest: WriteJSON, which may fail to write
BuildWrite ==
    /\ dm.stage = "returned" /\ dm.ret = "manifest"
    /\ \E wrote \in BOOLEAN :
         dm' = [dm EXCEPT !.stage = IF wrote THEN "written" ELSE "write error",
                          !.m = ComputeStats(dm.m)]
               @@ [json |-> IF wrote THEN <<StatsJSON(ComputeStats(dm.m).Stats)>> ELSE <<>>]
    /\ BuildRest

\* printBuildReport: the numbers it prints; the Skipped line only when > 0
BuildReport ==
    /\ dm.stage = "written"
    /\ dm' = [dm EXCEPT !.stage = "reported"]
               @@ [report |-> [Assets |-> dm.m.Stats.TotalAssets,
                               Variants |-> dm.m.Stats.TotalVariants,
                               Skipped |-> IF dm.m.Stats.SkippedRegress > 0
                                           THEN <<dm.m.Stats.SkippedRegress>> ELSE <<>>]]
    /\ BuildRest

BuildNext ==
    \/ BuildScan
    \/ \E idx \in 1..MaxFiles : BuildProcess(idx)
    \/ BuildCollect
    \/ BuildWrite
    \/ BuildReport

SpecBuild == BuildInit /\ [][BuildNext]_vars

Succeeded == {i \in 1..Len(dm.results) : ~dm.results[i].err}

\* Run returns an error exactly when the scan failed, nothing was found or
\* every image failed
ErrorIffNothingUsable ==
    dm.ret # "manifest" <=>
        (dm.scanErr \/ Len(dm.sources) = 0 \/ Succeeded = {})

\* C29 as stated: error and no manifest exactly in the three cases; else the
\* manifest has an entry for every source processed without error and none
\* from a failed source.
C29_EntryPerSource ==
    dm.stage = "returned" =>
        /\ ErrorIffNothingUsable
        /\ dm.ret = "manifest" =>
              /\ \A i \in Succeeded :
                    \E key \in DOMAIN dm.m.Assets : dm.m.Assets[key].from = i
              /\ \A key \in DOMAIN dm.m.Assets : dm.m.Assets[key].from \in Succeeded

\* C29 amended: error exactly in the three cases; else the manifest has one
\* entry per key of a source processed without error, holding the asset of
\* the last such source in scan order, and no entry from a failed source.
C29_EntryPerKey ==
    dm.stage = "returned" =>
        /\ ErrorIffNothingUsable
        /\ dm.ret # "manifest" => dm.m = NewManifest
        /\ dm.ret = "manifest" =>
              /\ DOMAIN dm.m.Assets = {dm.sources[i].key : i \in Succeeded}
              /\ \A key \in DOMAIN dm.m.Assets :
                    /\ dm.m.Assets[key].from \in Succeeded
                    /\ dm.m.Assets[key] = dm.results[dm.m.Assets[key].from].asset
                    /\ \A i \in Succeeded :
                          dm.sources[i].key = key => i <= dm.m.Assets[key].from

\* sources a, a, b: the first fails to open, the second and third succeed;
\* the manifest has the second under a and the third under b
C29_Witness ==
    /\ dm.stage = "returned" /\ dm.ret = "manifest"
    /\ Len(dm.sources) = 3
    /\ dm.sources[1].key = "a" /\ dm.sources[2].key = "a" /\ dm.sources[3].key = "b"
    /\ dm.results[1].err /\ Succeeded = {2, 3}
    /\ DOMAIN dm.m.Assets = {"a", "b"}
    /\ dm.m.Assets["a"].from = 2 /\ dm.m.Assets["b"].from = 3
    /\ dm.m.Assets["a"].variants = <<3, 3>>

\* C30 as stated: the SkippedRegress = k that Run set is still in m.Stats
\* after WriteJSON, in the written manifest and in the printed report.
C30_SkippedSurvives ==
    /\ dm.stage \in {"written", "reported"} =>
          /\ dm.m.Stats.SkippedRegress = dm.k
          /\ dm.k > 0 => dm.json = <<StatsJSON([dm.m.Stats EXCEPT !.SkippedRegress = dm.k])>>
    /\ dm.stage = "reported" =>
          dm.report.Skipped = IF dm.k > 0 THEN <<dm.k>> ELSE <<>>

====
